---- MODULE Spec2Model ----
(***************************************************************************)
(* Model of the NouX agent resolver (src/src/resolver.ts): the TTL cache,  *)
(* the resolve pipeline with its two suspension points, the Borsh decoder  *)
(* of the PaymentRequirement account and the base-58 encoder; of the       *)
(* payment gate (src/src/middleware.ts): its construction, the pre-check   *)
(* and the per-request payTo and price callbacks; and of the fee split of  *)
(* createPaymentPayload (src/src/client.ts).                               *)
(*                                                                         *)
(* Representation.  A text is a sequence of one-character strings.  A      *)
(* Buffer / Uint8Array is a sequence of bytes (0..255), 1-indexed here, so *)
(* the source's data[k] is data[k+1] below.  A bigint is a big-endian      *)
(* sequence of base-256 limbs without leading zero limbs (0n is <<>>).     *)
(* A JavaScript number that may exceed 2^31 (an offset built from a u32    *)
(* length prefix) is a record [hi, lo] standing for hi * 65536 + lo.       *)
(***************************************************************************)
EXTENDS Integers, Sequences, FiniteSets, TLC

\* ------------------------------------------------------------------------
\* Bytes and bigint arithmetic
\* ------------------------------------------------------------------------

Repeat(x, n) == <<>> \o [i \in 1..n |-> x]

\* s without its leading zeros.
StripZeros(s) ==
    IF \A i \in 1..Len(s) : s[i] = 0 THEN <<>>
    ELSE SubSeq(s, CHOOSE i \in 1..Len(s) :
                      s[i] # 0 /\ \A j \in 1..(i - 1) : s[j] = 0,
                Len(s))

\* BigInt built by "num = num * 256n + BigInt(b)" over the bytes.
BigFromBytes(bytes) == StripZeros(bytes)

\* (num / d, num % d) for a small positive d, by schoolbook long division.
\* The loop state st = [num, quot, rem] is one record per limb.
DivModStep(st, d) ==
    LET cur == st.rem * 256 + Head(st.num)
    IN  [num |-> Tail(st.num),
         quot |-> Append(st.quot, cur \div d),
         rem |-> cur % d]

\* Up to n steps, until the limbs run out; the n steps are run as two
\* halves, which keeps the nesting of evaluations logarithmic in n.
RECURSIVE DivModLoop(_, _, _)
DivModLoop(st, d, n) ==
    IF st.num = <<>> THEN st
    ELSE IF n = 1 THEN DivModStep(st, d)
    ELSE DivModLoop(DivModLoop(st, d, n \div 2), d, n - (n \div 2))

DivModResult(st) == [q |-> StripZeros(st.quot), r |-> st.rem]

BigDivMod(num, d) ==
    DivModResult(DivModLoop([num |-> num, quot |-> <<>>, rem |-> 0], d,
                            Len(num)))

\* num * m + a for small m and a, as a big-endian limb sequence: one limb
\* per step from the least significant end, then the limbs of the carry.
MulAddStep(st, m) ==
    LET k   == Len(st.num)
        cur == st.num[k] * m + st.carry
    IN  [num |-> SubSeq(st.num, 1, k - 1),
         carry |-> cur \div 256,
         out |-> <<cur % 256>> \o st.out]

RECURSIVE MulAddLoop(_, _, _)
MulAddLoop(st, m, n) ==
    IF st.num = <<>> THEN st
    ELSE IF n = 1 THEN MulAddStep(st, m)
    ELSE MulAddLoop(MulAddLoop(st, m, n \div 2), m, n - (n \div 2))

CarryLimbs(c) ==
    << c \div 16777216, (c \div 65536) % 256, (c \div 256) % 256, c % 256 >>

MulAddResult(st) == StripZeros(CarryLimbs(st.carry) \o st.out)

BigMulAdd(num, m, a) ==
    MulAddResult(MulAddLoop([num |-> num, carry |-> a, out |-> <<>>], m,
                            Len(num)))

\* ------------------------------------------------------------------------
\* Base-58 (resolver.ts, "Base58 Encoding")
\* ------------------------------------------------------------------------

BASE58_ALPHABET ==
    << "1","2","3","4","5","6","7","8","9",
       "A","B","C","D","E","F","G","H","J","K","L","M","N","P","Q","R","S",
       "T","U","V","W","X","Y","Z",
       "a","b","c","d","e","f","g","h","i","j","k","m","n","o","p","q","r",
       "s","t","u","v","w","x","y","z" >>

\* "for (const b of bytes) { if (b !== 0) break; zeroes++; }": up to n
\* iterations over st = [rest, zeroes], stopped by the break.
RECURSIVE ZeroesLoop(_, _)
ZeroesLoop(st, n) ==
    IF st.rest = <<>> \/ Head(st.rest) # 0 THEN st
    ELSE IF n = 1 THEN [rest |-> Tail(st.rest), zeroes |-> st.zeroes + 1]
    ELSE ZeroesLoop(ZeroesLoop(st, n \div 2), n - (n \div 2))

CountLeadingZeros(bytes) ==
    ZeroesLoop([rest |-> bytes, zeroes |-> 0], Len(bytes)).zeroes

\* "chars.unshift(BASE58_ALPHABET[remainder])" and "num = num / 58n", for
\* dm = (num / 58n, num % 58n).
Base58Unshift(st, dm) ==
    [num |-> dm.q, chars |-> <<BASE58_ALPHABET[dm.r + 1]>> \o st.chars]

\* Base58Step with chars.push in place of chars.unshift.
Base58StepPushed(st) ==
    LET dm == BigDivMod(st.num, 58)
    IN  [num |-> dm.q, chars |-> st.chars \o <<BASE58_ALPHABET[dm.r + 1]>>]

\* One iteration of "while (num > 0n) { remainder = Number(num % 58n);
\*     num = num / 58n; chars.unshift(BASE58_ALPHABET[remainder]); }"
Base58Step(st) == Base58Unshift(st, BigDivMod(st.num, 58))

\* Up to n iterations of the loop, which stops when num is 0n.
RECURSIVE Base58Loop(_, _)
Base58Loop(st, n) ==
    IF st.num = <<>> THEN st
    ELSE IF n = 1 THEN Base58Step(st)
    ELSE Base58Loop(Base58Loop(st, n \div 2), n - (n \div 2))

\* The while loop run to its end: a number of L limbs has fewer than 2L
\* base-58 digits, so 2L iterations always reach num = 0n.
Base58Digits(num) ==
    Base58Loop([num |-> num, chars |-> <<>>], 2 * Len(num)).chars

\* LeadingOnes with the loop started at 1: one symbol short.
LeadingOnesShort(zeroes) == Repeat("1", zeroes - 1)

\* "for (let i = 0; i < zeroes; i++) chars.unshift('1')"
LeadingOnes(zeroes) == Repeat("1", zeroes)

encodeBase58(bytes) ==
    LeadingOnes(CountLeadingZeros(bytes))
        \o Base58Digits(BigFromBytes(bytes))

\* Index of a symbol in BASE58_ALPHABET (0-based), or -1.
Base58IndexOf ==
    [ch \in { BASE58_ALPHABET[i] : i \in 1..58 } |->
        (CHOOSE i \in 1..58 : BASE58_ALPHABET[i] = ch) - 1]

Base58Index(ch) ==
    IF ch \in DOMAIN Base58IndexOf THEN Base58IndexOf[ch] ELSE -1

\* The number of '1' symbols ahead of the first other symbol.
CountLeadingOnes(text) ==
    IF \A i \in 1..Len(text) : text[i] = "1" THEN Len(text)
    ELSE (CHOOSE i \in 1..Len(text) :
             text[i] # "1" /\ \A j \in 1..(i - 1) : text[j] = "1") - 1

\* The number a base-58 text spells, symbol by symbol from the left.
Base58ValueStep(st) ==
    [text |-> Tail(st.text),
     num |-> BigMulAdd(st.num, 58, Base58Index(Head(st.text)))]

RECURSIVE Base58ValueLoop(_, _)
Base58ValueLoop(st, n) ==
    IF st.text = <<>> THEN st
    ELSE IF n = 1 THEN Base58ValueStep(st)
    ELSE Base58ValueLoop(Base58ValueLoop(st, n \div 2), n - (n \div 2))

Base58Value(st) == Base58ValueLoop(st, Len(st.text)).num

\* The bytes a base-58 text stands for: one zero byte per leading '1', then
\* the big-endian bytes of the number spelled by the remaining symbols.
Base58Bytes(text) ==
    LET ones == CountLeadingOnes(text)
    IN  Repeat(0, ones)
            \o Base58Value([text |-> SubSeq(text, ones + 1, Len(text)),
                            num |-> <<>>])

\* address(putativeAddress) of @solana/kit: returns its argument when it is
\* 32..44 base-58 symbols standing for exactly 32 bytes, and throws otherwise.
IsAddress(text) ==
    /\ Len(text) >= 32
    /\ Len(text) <= 44
    /\ \A i \in 1..Len(text) : Base58Index(text[i]) >= 0
    /\ Len(Base58Bytes(text)) = 32

\* ------------------------------------------------------------------------
\* Buffer reads (Node.js Buffer semantics)
\* ------------------------------------------------------------------------

\* A thrown exception, as a value.
Thrown(e) == [throws |-> e]

IsThrown(r) == "throws" \in DOMAIN r

\* A JavaScript number hi * 65536 + lo with 0 <= lo < 65536.
Num(n) == [hi |-> n \div 65536, lo |-> n % 65536]

\* NumAdd as 32-bit unsigned arithmetic, wrapping at 2^32.
NumAddWrapped(a, b) ==
    [hi |-> (a.hi + b.hi + ((a.lo + b.lo) \div 65536)) % 65536,
     lo |-> (a.lo + b.lo) % 65536]

NumAdd(a, b) ==
    [hi |-> a.hi + b.hi + ((a.lo + b.lo) \div 65536),
     lo |-> (a.lo + b.lo) % 65536]

\* data[offset] !== undefined
InBuffer(data, offset) == offset.hi = 0 /\ offset.lo < Len(data)

Reverse(s) == <<>> \o [i \in 1..Len(s) |-> s[Len(s) - i + 1]]

\* readBigUInt64LE reading the eight bytes in big-endian order.
readBigUInt64BE(data, offset) ==
    IF offset + 7 < Len(data)
    THEN [value |-> BigFromBytes(SubSeq(data, offset + 1, offset + 8))]
    ELSE Thrown("RangeError")

\* data.readBigUInt64LE(offset): throws when data[offset] or data[offset+7]
\* is undefined.
readBigUInt64LE(data, offset) ==
    IF offset + 7 < Len(data)
    THEN [value |-> BigFromBytes(Reverse(SubSeq(data, offset + 1, offset + 8)))]
    ELSE Thrown("RangeError")

\* data.subarray(start, end): both ends are clamped to the buffer.
subarray(data, start, end) ==
    LET lo == IF start > Len(data) THEN Len(data) ELSE start
        hi == IF end > Len(data) THEN Len(data) ELSE end
    IN  IF hi <= lo THEN <<>> ELSE SubSeq(data, lo + 1, hi)

\* data.readUInt32LE(offset): throws when data[offset] or data[offset+3] is
\* undefined.
readUInt32LE(data, offset) ==
    IF InBuffer(data, offset) /\ InBuffer(data, NumAdd(offset, Num(3)))
    THEN LET k == offset.lo
         IN  [hi |-> data[k + 3] + 256 * data[k + 4],
              lo |-> data[k + 1] + 256 * data[k + 2]]
    ELSE Thrown("RangeError")

\* "data[offset] !== 0": an index outside the buffer reads undefined, and
\* undefined !== 0 is true.
ActiveFlag(data, offset) ==
    IF InBuffer(data, offset) THEN data[offset.lo + 1] # 0 ELSE TRUE

\* amount.toString(): decimal digits of a bigint, "0" for 0n.
DecimalDigit == << "0","1","2","3","4","5","6","7","8","9" >>

RECURSIVE DecimalDigits(_)
DecimalDigits(st) ==
    IF st.num = <<>> THEN st.chars
    ELSE LET dm == BigDivMod(st.num, 10)
         IN  DecimalDigits([num |-> dm.q,
                            chars |-> <<DecimalDigit[dm.r + 1]>> \o st.chars])

BigToString(num) ==
    IF num = <<>> THEN <<"0">>
    ELSE DecimalDigits([num |-> num, chars |-> <<>>])

\* ------------------------------------------------------------------------
\* deserializePaymentRequirement
\* ------------------------------------------------------------------------

\* The absent result of resolve and of the decoder.
Null == [null |-> TRUE]

\* Lines 205-223: the two addresses go through address(encodeBase58(...)),
\* which throws on a text that is not an address.
BuildAgent(payTo, amount, tokenMint, active) ==
    IF ~IsAddress(payTo) \/ ~IsAddress(tokenMint)
    THEN Thrown("SolanaError")
    ELSE [payTo |-> payTo, amount |-> BigToString(amount),
          tokenMint |-> tokenMint, active |-> active]

\* Lines 198-203: the resource prefix read at resOffset, then the flag.
DecodeFromResource(data, amount, resOffset, resLen) ==
    IF IsThrown(resLen) THEN resLen
    ELSE BuildAgent(encodeBase58(subarray(data, 82, 114)),
                    amount.value,
                    encodeBase58(subarray(data, 50, 82)),
                    ActiveFlag(data, NumAdd(NumAdd(resOffset, Num(4)),
                                            resLen)))

\* Lines 194-200: "offset += 4 + descLen" from offset 114.
DecodeFromDescription(data, amount, descLen) ==
    IF IsThrown(amount) THEN amount
    ELSE IF IsThrown(descLen) THEN descLen
    ELSE DecodeFromResource(data, amount, NumAdd(Num(118), descLen),
                            readUInt32LE(data, NumAdd(Num(118), descLen)))

\* The body of the try block; the result is a ResolvedAgent or a throw.
\* The fixed part: discriminator 8, nft_mint 32, service_type 1, scheme 1,
\* amount at 42, token_mint at 50, pay_to at 82, description prefix at 114.
DeserializeTry(data) ==
    DecodeFromDescription(data, readBigUInt64LE(data, 42),
                          readUInt32LE(data, Num(114)))

\* try { ... } catch (err) { return null; }
CatchDecode(r) == IF IsThrown(r) THEN Null ELSE r

deserializePaymentRequirement(data) == CatchDecode(DeserializeTry(data))

\* ------------------------------------------------------------------------
\* Inputs of the model
\* ------------------------------------------------------------------------

\* Number of resolve calls in one behaviour; they may all be pending at once.
MaxCalls == 2

\* Number of clock readings in one behaviour that show time to have passed.
MaxTicks == 2

\* Number of changes of the remote accounts in one behaviour.
MaxUpdates == 1

\* Longest byte array enumerated exhaustively for encodeBase58.
MaxBytesLen == 3

Calls == 1..MaxCalls

\* Two valid subject addresses: the base-58 texts of 32 zero bytes and of
\* 31 zero bytes followed by 0x01 ...
MintA == Repeat("1", 32)

MintB == Repeat("1", 31) \o <<"2">>

\* ... and a subject text that is not an address.
MintBad == MintA \o <<":", "a", "2", "a">>

A2A == <<"a", "2", "a">>

\* The one requirement the gate resolves: serviceType omitted.
MainInputs == { [agentMint |-> MintA] }

\* Arguments of resolve naming several keys.
KeyInputs ==
    { [agentMint |-> MintA],
      [agentMint |-> MintA, serviceType |-> A2A],
      [agentMint |-> MintB, serviceType |-> A2A],
      [agentMint |-> MintA, serviceType |-> <<"a", "2", "a", ":", "x">>],
      [agentMint |-> MintBad, serviceType |-> <<"x">>] }

\* Arguments of resolve for the decoding runs.
DecodeCallInputs ==
    { [agentMint |-> MintA],
      [agentMint |-> MintBad, serviceType |-> <<"x">>] }

\* Arguments of resolve over the categories: omitted, the four known ones,
\* a name that is no category, and three names Object.prototype defines.
SeedInputs ==
    { [agentMint |-> MintA], [agentMint |-> MintB],
      [agentMint |-> MintB, serviceType |-> <<"w", "e", "b">>] }
    \cup { [agentMint |-> MintA, serviceType |-> st] :
             st \in { <<"m", "c", "p">>, <<"a", "2", "a">>, <<"a", "p", "i">>,
                      <<"w", "e", "b">>, <<"x", "y">>,
                      <<"t", "o", "S", "t", "r", "i", "n", "g">>,
                      <<"c", "o", "n", "s", "t", "r", "u", "c", "t", "o", "r">>,
                      <<"_", "_", "p", "r", "o", "t", "o", "_", "_">> } }

CallInputs == MainInputs \cup KeyInputs \cup DecodeCallInputs \cup SeedInputs

\* constructor options: cacheTtlMs omitted, or set.
TtlOptions == { [none |-> TRUE], [cacheTtlMs |-> 2] }

\* ------------------------------------------------------------------------
\* Account blobs
\* ------------------------------------------------------------------------

\* Little-endian bytes of a u32 given as two 16-bit halves.
U32LE(n) == << n.lo % 256, n.lo \div 256, n.hi % 256, n.hi \div 256 >>

\* A PaymentRequirement account in Anchor's Borsh layout, up to and
\* including the fields given; "active" is a sequence of 0 or 1 bytes and
\* "tail" stands for created_at, updated_at and bump.
Blob(amount, tokenMint, payTo, descLen, desc, resLen, res, active, tail) ==
    Repeat(0, 8) \o Repeat(0, 32) \o <<0>> \o <<0>> \o amount
        \o tokenMint \o payTo
        \o U32LE(descLen) \o desc \o U32LE(resLen) \o res \o active \o tail

\* amount 1000000 = 0x0F4240
Amount1M == <<64, 66, 15, 0, 0, 0, 0, 0>>

Amount2M == <<128, 132, 30, 0, 0, 0, 0, 0>>

\* A well-formed account whose recipient depends on tag (1..255).
GoodBlob(amountLE, tag, activeByte) ==
    Blob(amountLE, Repeat(0, 31) \o <<1>>, Repeat(0, 31) \o <<tag>>,
         Num(0), <<>>, Num(0), <<>>, <<activeByte>>, Repeat(0, 17))

\* The synthetic account of the layout test: amount 1000000, asset 32 x
\* 0x01, recipient 32 x 0x02, empty description and resource, active = 1.
SyntheticBlob ==
    Blob(Amount1M, Repeat(1, 32), Repeat(2, 32), Num(0), <<>>, Num(0), <<>>,
         <<1>>, <<>>)

\* Blobs for the decoding runs.
AmountSamples ==
    { Amount1M, Repeat(0, 8), Repeat(255, 8), <<1, 0, 0, 0, 0, 0, 32, 0>> }

KeySamples ==
    { << Repeat(1, 32), Repeat(2, 32) >>,
      << Repeat(0, 32), Repeat(255, 32) >> }

\* Declared lengths: 0, 2 and 0xFFFFFFFF.
LenSamples == { Num(0), Num(2), [hi |-> 65535, lo |-> 65535] }

\* The bytes present for a declared length: all of them, or none.
Present(n, full) == IF n.hi = 0 /\ full THEN Repeat(7, n.lo) ELSE <<>>

ActiveSamples == { <<>>, <<0>>, <<1>>, <<2>> }

FullBlobs ==
    { Blob(a, k[1], k[2], dl, Present(dl, TRUE), rl, Present(rl, full), act,
           IF act = <<>> THEN <<>> ELSE Repeat(0, 17)) :
        a \in AmountSamples, k \in KeySamples, dl \in LenSamples,
        rl \in LenSamples, full \in BOOLEAN, act \in ActiveSamples }

\* Prefix lengths of the synthetic account; 123 is the whole of it.
TruncatedLengths == {0, 7, 8, 39, 40, 49, 50, 113, 117, 118, 121, 122, 123}

TruncatedBlobs ==
    { SubSeq(SyntheticBlob, 1, n) : n \in TruncatedLengths }

\* Byte arrays for the encoder runs: every array of up to MaxBytesLen
\* sample bytes, and some long ones.
ByteSamples == {0, 1, 57, 58, 255}

ShortByteArrays ==
    UNION { { <<>> \o f : f \in [1..n -> ByteSamples] } : n \in 0..MaxBytesLen }

LongByteArrays ==
    { Repeat(0, 32), Repeat(0, 64), Repeat(255, 32), Repeat(255, 64),
      Repeat(0, 31) \o <<1>>, Repeat(0, 5) \o Repeat(200, 27),
      Repeat(1, 32), Repeat(2, 32), <<0>> \o Repeat(58, 63) }

Base58Inputs == ShortByteArrays \cup LongByteArrays

\* ------------------------------------------------------------------------
\* Collaborators: address derivation and the RPC account store
\* ------------------------------------------------------------------------

\* SERVICE_TYPE_SEEDS[serviceType] ?? serviceType
SERVICE_TYPE_SEEDS ==
    [k \in { <<"m", "c", "p">>, <<"a", "2", "a">>,
             <<"a", "p", "i">>, <<"w", "e", "b">> } |-> k]

\* SERVICE_TYPE_SEEDS is an object literal, so a lookup by a name it does
\* not define goes on to Object.prototype.  Some of the names found there,
\* each with the text the string conversion of TextEncoder.encode makes of
\* the value found: a function's source text, "[object Object]" for the
\* prototype itself.
ToStringName == <<"t", "o", "S", "t", "r", "i", "n", "g">>

ConstructorName == <<"c", "o", "n", "s", "t", "r", "u", "c", "t", "o", "r">>

ProtoName == <<"_", "_", "p", "r", "o", "t", "o", "_", "_">>

ObjectPrototype ==
    [k \in {ToStringName, ConstructorName, ProtoName} |->
        IF k = ToStringName
        THEN <<"f", "u", "n", "c", "t", "i", "o", "n", " ", "t", "o", "S",
             "t", "r", "i", "n", "g", "(", ")", " ", "{", " ", "[", "n",
             "a", "t", "i", "v", "e", " ", "c", "o", "d", "e", "]", " ",
             "}">>
        ELSE IF k = ConstructorName
        THEN <<"f", "u", "n", "c", "t", "i", "o", "n", " ", "O", "b", "j",
             "e", "c", "t", "(", ")", " ", "{", " ", "[", "n", "a", "t",
             "i", "v", "e", " ", "c", "o", "d", "e", "]", " ", "}">>
        ELSE <<"[", "o", "b", "j", "e", "c", "t", " ", "O", "b", "j", "e",
             "c", "t", "]">>]

\* "SERVICE_TYPE_SEEDS[serviceType] ?? serviceType": the own property,
\* else the inherited one, else (the lookup gave undefined) the name.
SeedFor(serviceType) ==
    IF serviceType \in DOMAIN SERVICE_TYPE_SEEDS
    THEN SERVICE_TYPE_SEEDS[serviceType]
    ELSE IF serviceType \in DOMAIN ObjectPrototype
    THEN ObjectPrototype[serviceType]
    ELSE serviceType

\* new TextEncoder().encode(text), kept symbolic (an injective encoding).
TextEncode(text) == [utf8 |-> text]

PaymentReqTag == <<"p","a","y","m","e","n","t","_","r","e","q">>

\* getAddressEncoder().encode(address): the 32 bytes of an address.
AddressBytes(addr) == Base58Bytes(addr)

\* The seeds handed to getProgramDerivedAddress, in order.
SeedsFor(agentMint, serviceType) ==
    << TextEncode(PaymentReqTag),
       AddressBytes(agentMint),
       TextEncode(SeedFor(serviceType)) >>

\* getProgramDerivedAddress takes seeds of up to 32 bytes each and raises
\* on a longer one.
SeedsFit(seeds) ==
    \A i \in 1..Len(seeds) :
        IF i = 2 THEN Len(seeds[i]) <= 32 ELSE Len(seeds[i].utf8) <= 32

\* The argument of getProgramDerivedAddress at lines 86-93.
Derivation(agentMint, serviceType) ==
    [programAddress |-> "Nouxis_PROGRAM_ID",
     seeds |-> SeedsFor(agentMint, serviceType)]

\* The address getProgramDerivedAddress returns for a seed list under
\* Nouxis_PROGRAM_ID: a deterministic, injective function of the seeds.
DerivedAddress(seeds) == [program |-> "Nouxis_PROGRAM_ID", seeds |-> seeds]

\* The value of a parameter with a default: "serviceType: string = 'a2a'".
ServiceTypeOf(args) ==
    IF "serviceType" \in DOMAIN args THEN args.serviceType
    ELSE <<"a", "2", "a">>

\* The accounts the callers' valid inputs derive to.
Pdas ==
    { DerivedAddress(SeedsFor(a.agentMint, ServiceTypeOf(a))) :
        a \in { x \in CallInputs : IsAddress(x.agentMint) } }

\* A number that tells the model's accounts apart, used to give each its
\* own recipient: the subject's last byte and the length of the seed text.
PdaTag(pda) == 2 + pda.seeds[2][32] + 2 * Len(pda.seeds[3].utf8)

NoAccount == [none |-> TRUE]

\* The account each address holds at the start ...
InitialAccount == [p \in Pdas |-> [data |-> GoodBlob(Amount1M, PdaTag(p), 1)]]

\* ... and what the remote program makes of it with its n-th change:
\* rewritten with another amount, then closed, then created again inactive.
AccountVersion(p, n) ==
    IF n % 3 = 1 THEN [data |-> GoodBlob(Amount2M, PdaTag(p), 1)]
    ELSE IF n % 3 = 2 THEN NoAccount
    ELSE [data |-> GoodBlob(Amount1M, PdaTag(p), 0)]

\* The account of the default-category requirement of MintA.
PdaA == DerivedAddress(SeedsFor(MintA, A2A))

\* What that account holds in the decoding runs.
DecodeAccounts ==
    {NoAccount} \cup { [data |-> b] : b \in FullBlobs \cup TruncatedBlobs }

\* ------------------------------------------------------------------------
\* State
\* ------------------------------------------------------------------------

VARIABLES
    options,      \* the options argument of the constructor
    cacheTtlMs,   \* AgentResolver.cacheTtlMs
    cache,        \* AgentResolver.cache: cacheKey -> [data, expiresAt]
    now,          \* the latest reading of Date.now()
    remote,       \* the account stored at each derived address
    calls,        \* the resolve calls: position, locals, returned result
    ticks,        \* number of clock readings that found time advanced
    updates,      \* number of remote changes so far
    lastPut,      \* history: for each cached key, the put that wrote it
    dropped,      \* history: for each key, the put clearCache last removed
    bytes,        \* input of encodeBase58 (pure-function specification)
    encoded,      \* its output, or NotRun
    gate,         \* NouxisPaymentGate: its config, what it built, callbacks
    payment       \* createPaymentPayload: its requirements and its outcome

vars == << options, cacheTtlMs, cache, now, remote, calls, ticks, updates,
           lastPut, dropped, bytes, encoded, gate, payment >>

None == [none |-> TRUE]

NotRun == <<"not run">>

EmptyMap == [k \in {} |-> None]

\* Map.prototype.set
MapSet(map, key, val) ==
    [k \in (DOMAIN map) \cup {key} |-> IF k = key THEN val ELSE map[k]]

IdleCall ==
    [pc |-> "idle", args |-> None, cacheKey |-> <<>>, pda |-> None,
     response |-> None, result |-> None, steps |-> <<>>, seen |-> None,
     startedAt |-> 0, cleared |-> None, after |-> {}, derivation |-> None,
     version |-> None, overtaken |-> FALSE]

\* "options?.cacheTtlMs ?? 30_000"
TtlOf(opts) ==
    IF "cacheTtlMs" \in DOMAIN opts THEN opts.cacheTtlMs ELSE 30000

InitResolver ==
    /\ options \in TtlOptions
    /\ cacheTtlMs = TtlOf(options)
    /\ cache = EmptyMap
    /\ now = 0
    /\ calls = [c \in Calls |-> IdleCall]
    /\ ticks = 0
    /\ updates = 0
    /\ lastPut = EmptyMap
    /\ dropped = EmptyMap

\* No gate is built and no payment payload is asked for.
NoGate == [pc |-> "none"]

NoPayment == [pc |-> "none"]

GateIdle == UNCHANGED << gate, payment >>

Init ==
    /\ InitResolver
    /\ remote = InitialAccount
    /\ bytes = <<>>
    /\ encoded = NotRun
    /\ gate = NoGate
    /\ payment = NoPayment

\* ------------------------------------------------------------------------
\* AgentResolver.resolve
\* ------------------------------------------------------------------------

\* `${agentMint}:${serviceType}`
CacheKey(agentMint, serviceType) == agentMint \o <<":">> \o serviceType

\* CacheHit with the expiry instant still counted as fresh.
CacheHitInclusive(map, key, time) ==
    key \in DOMAIN map /\ map[key].expiresAt >= time

\* CacheHit with the comparison turned around.
CacheHitInverted(map, key, time) ==
    key \in DOMAIN map /\ map[key].expiresAt < time

\* "cached && cached.expiresAt > Date.now()"
CacheHit(map, key, time) == key \in DOMAIN map /\ map[key].expiresAt > time

\* "catch (err) { console.error(...); return null; }" of resolve: what the
\* call returns when the try block ended with outcome.
Catch(outcome) == IF IsThrown(outcome) THEN Null ELSE outcome.returns

Continue == [continue |-> TRUE]

Return(v) == [returns |-> v]

\* Lines 82-84: the seed lookup and address(agentMint), which throws on a
\* text that is not an address.
TryEncodeMint(agentMint) ==
    IF IsAddress(agentMint) THEN Continue ELSE Thrown("SolanaError")

\* Lines 126-140: "if (!result) return null", else cache and return it.
PutOrNull(result) ==
    IF result = Null THEN [returns |-> Null, decoded |-> TRUE]
    ELSE [put |-> result]

\* TryDecode without the check of the data's length.
TryDecodeUnguarded(response) ==
    IF IsThrown(response) THEN response
    ELSE IF response.value = NoAccount THEN Return(Null)
    ELSE LET raw == response.value.data
         IN  IF raw.shape \notin {"tuple", "string"} THEN Return(Null)
             ELSE PutOrNull(deserializePaymentRequirement(raw.base64))

\* Lines 100-132, after the fetch has settled with response: an early
\* return of null, a throw, or the decoded record to cache and return.
\* A base-64 text is represented by the bytes it decodes to, so
\* Buffer.from(base64String, "base64") is response.value.data.base64.
TryDecode(response) ==
    IF IsThrown(response) THEN response
    ELSE IF response.value = NoAccount THEN Return(Null)
    ELSE LET raw == response.value.data
         IN  IF raw.shape \notin {"tuple", "string"} THEN Return(Null)
             ELSE LET data == raw.base64
                  IN  IF Len(data) < 8 THEN Return(Null)
                      ELSE PutOrNull(deserializePaymentRequirement(data))

\* Date.now() is read: the clock returns the previous reading, or one that
\* is d later.  now is the latest reading and ticks counts the advances.
ClockRead(d) ==
    /\ d >= 0
    /\ d > 0 => ticks < MaxTicks
    /\ now' = now + d
    /\ ticks' = IF d > 0 THEN ticks + 1 ELSE ticks

\* No Date.now() in this step.
ClockUnread == UNCHANGED << now, ticks >>

\* The call enters resolve: cache probe, then the synchronous part of the
\* try block up to the first await, which opens the derivation ("Derive
\* PaymentRequirement PDA", lines 81-93) and records its argument.  "cached && cached.expiresAt >
\* Date.now()" reads the clock only when the key has an entry; ds are the
\* advances the reading may show.
ResolveStart(c, args, ds) ==
    LET agentMint == args.agentMint
        serviceType == ServiceTypeOf(args)
        cacheKey == CacheKey(agentMint, serviceType)
        base == [IdleCall EXCEPT
                   !.args = args, !.cacheKey = cacheKey,
                   !.steps = <<"probe">>,
                   !.seen = IF cacheKey \in DOMAIN cache
                            THEN lastPut[cacheKey] ELSE None,
                   !.after = { b \in Calls : calls[b].pc = "done" },
                   !.cleared = IF /\ cacheKey \notin DOMAIN cache
                                  /\ cacheKey \in DOMAIN dropped
                               THEN dropped[cacheKey] ELSE None]
        outcome == TryEncodeMint(agentMint)
    IN  /\ calls[c].pc = "idle"
        /\ \A b \in Calls : b < c => calls[b].pc # "idle"
        /\ IF cacheKey \in DOMAIN cache
           THEN \E d \in ds : ClockRead(d)
           ELSE ClockUnread
        /\ calls' = [calls EXCEPT ![c] =
             IF CacheHit(cache, cacheKey, now')
             THEN [base EXCEPT !.pc = "done", !.result = cache[cacheKey].data,
                               !.startedAt = now',
                               !.steps = <<"probe", "hit">>]
             ELSE IF outcome = Continue
             THEN [base EXCEPT !.pc = "derive", !.startedAt = now',
                               !.steps = <<"probe", "derive">>,
                               !.derivation =
                                   Derivation(agentMint, serviceType)]
             ELSE [base EXCEPT !.pc = "done", !.startedAt = now',
                               !.steps = <<"probe", "derive">>,
                               !.result = Catch(outcome)]]
        /\ UNCHANGED << options, cacheTtlMs, cache, remote, updates, lastPut,
                        dropped, bytes, encoded >>

\* "await getProgramDerivedAddress(...)" settles; on success the call sends
\* getAccountInfo for the derived address and suspends again.
DeriveDone(c, ok) ==
    LET call == calls[c]
        seeds == SeedsFor(call.args.agentMint, ServiceTypeOf(call.args))
        outcome == IF ok THEN Continue ELSE Thrown("DerivationError")
    IN  /\ call.pc = "derive"
        /\ ok => SeedsFit(seeds)
        /\ calls' = [calls EXCEPT ![c] =
             IF outcome = Continue
             THEN [call EXCEPT !.pc = "fetch",
                               !.pda = DerivedAddress(seeds),
                               !.steps = @ \o <<"fetch">>]
             ELSE [call EXCEPT !.pc = "done", !.result = Catch(outcome)]]
        /\ UNCHANGED << options, cacheTtlMs, cache, now, remote, ticks,
                        updates, lastPut, dropped, bytes, encoded >>

\* The shapes of response.value.data an RPC node can answer with.
DataShapes == {"tuple", "string", "object"}

\* The RPC node answers getAccountInfo from the account as it is now, or the
\* transport fails.
FetchRespond(c, fails, shape) ==
    LET call == calls[c]
        account == remote[call.pda]
    IN  /\ call.pc = "fetch"
        /\ calls' = [calls EXCEPT ![c] =
             [call EXCEPT !.pc = "respond",
                          !.version = IF fails THEN None ELSE [n |-> updates],
                          !.response =
                IF fails THEN Thrown("TransportError")
                ELSE IF account = NoAccount THEN [value |-> NoAccount]
                ELSE [value |-> [data |-> [shape |-> shape,
                                           base64 |-> account.data]]]]]
        /\ UNCHANGED << options, cacheTtlMs, cache, now, remote, ticks,
                        updates, lastPut, dropped, bytes, encoded >>

\* CacheEntry with the expiry counted from the call's probe.
CacheEntryFromProbe(call, data, time) ==
    [data |-> data, expiresAt |-> call.startedAt + cacheTtlMs]

\* "{ data: result, expiresAt: Date.now() + this.cacheTtlMs }", where time
\* is what Date.now() reads in the call's put.
CacheEntry(call, data, time) ==
    [data |-> data, expiresAt |-> time + cacheTtlMs]

\* CacheSet that updates an existing entry's record and keeps its expiry.
CacheSetMerged(map, key, entry) ==
    MapSet(map, key, IF key \in DOMAIN map
                     THEN [entry EXCEPT !.expiresAt = map[key].expiresAt]
                     ELSE entry)

\* "this.cache.set(cacheKey, ...)"
CacheSet(map, key, entry) == MapSet(map, key, entry)

\* CacheOnAbsent that removes the key's entry when the call fails.
CacheOnAbsentEvicting(map, key) ==
    [k \in (DOMAIN map) \ {key} |-> map[k]]

\* The cache after a call for key that ends in "return null", from an early
\* return or from the catch block: no statement there touches the cache.
CacheOnAbsent(map, key) == map

\* "await this.rpc.getAccountInfo(...).send()" settles and the call runs to
\* its end: checks, decode, cache.set, return.  "expiresAt: Date.now() +
\* this.cacheTtlMs" is the only clock reading, made when a record is stored.
FinishWith(c, outcome, ds) ==
    LET call == calls[c]
    IN  /\ call.pc = "respond"
        /\ IF "put" \in DOMAIN outcome
           THEN /\ \E d \in ds : ClockRead(d)
                /\ cache' = CacheSet(cache, call.cacheKey,
                                     CacheEntry(call, outcome.put, now'))
                /\ lastPut' = MapSet(lastPut, call.cacheKey,
                                     [returned |-> outcome.put, at |-> now',
                                      by |-> call.args, call |-> c])
                /\ calls' = [calls EXCEPT ![c] =
                     [call EXCEPT !.pc = "done", !.result = outcome.put,
                                  !.steps = @ \o <<"decode", "put">>]]
           ELSE /\ ClockUnread
                /\ calls' = [calls EXCEPT ![c] =
                     [call EXCEPT !.pc = "done", !.result = Catch(outcome),
                                  !.steps = @ \o
                                     (IF "decoded" \in DOMAIN outcome
                                      THEN <<"decode">> ELSE <<>>)]]
                /\ cache' = CacheOnAbsent(cache, call.cacheKey)
                /\ UNCHANGED lastPut
        /\ UNCHANGED << options, cacheTtlMs, remote, updates, dropped, bytes,
                        encoded >>

ResolveFinish(c, ds) ==
    /\ calls[c].pc = "respond"
    /\ FinishWith(c, TryDecode(calls[c].response), ds)

\* The history of removed puts once the puts in puts are removed too.
Dropping(old, puts) ==
    [k \in (DOMAIN old) \cup (DOMAIN puts) |->
        IF k \in DOMAIN puts THEN puts[k] ELSE old[k]]

\* clearCache that removes only the entries that have expired.
clearCacheExpired ==
    LET live == { k \in DOMAIN cache : cache[k].expiresAt > now }
    IN  /\ cache' = [k \in live |-> cache[k]]
        /\ lastPut' = [k \in live |-> lastPut[k]]
        /\ dropped' = Dropping(dropped, lastPut)
        /\ UNCHANGED << options, cacheTtlMs, now, remote, ticks, updates,
                        bytes, encoded >>

\* AgentResolver.clearCache: "this.cache.clear()".  The method touches no
\* call; what the calls' histories record of it is said where it is used.
clearCache ==
    /\ cache' = EmptyMap
    /\ lastPut' = EmptyMap
    /\ dropped' = Dropping(dropped, lastPut)
    /\ UNCHANGED << options, cacheTtlMs, now, remote, ticks, updates, bytes,
                    encoded >>

\* The calls' histories once clearCache has run: a call whose
\* getAccountInfo the node has answered and which has not resumed yet
\* (lines 96-98) is overtaken by the clear, the record it will decode
\* having been read before it.
Overtaking(cs) ==
    [c \in DOMAIN cs |->
        IF cs[c].pc = "respond" THEN [cs[c] EXCEPT !.overtaken = TRUE]
        ELSE cs[c]]

\* The remote program rewrites, closes or creates the account at p.
RemoteUpdate(p) ==
    /\ updates < MaxUpdates
    /\ updates' = updates + 1
    /\ remote' = [remote EXCEPT ![p] = AccountVersion(p, updates + 1)]
    /\ UNCHANGED << options, cacheTtlMs, cache, now, calls, ticks, lastPut,
                    dropped, bytes, encoded >>

\* What a clock reading may show to have passed since the previous one.
Advances == {0, 1, cacheTtlMs - 1, cacheTtlMs}

\* Concurrent calls on one key, with the clock, clearCache and remote
\* changes.
Next ==
    \/ \E c \in Calls, args \in MainInputs :
          ResolveStart(c, args, Advances) /\ GateIdle
    \/ \E c \in Calls, ok \in BOOLEAN : DeriveDone(c, ok) /\ GateIdle
    \/ \E c \in Calls, fails \in BOOLEAN :
          FetchRespond(c, fails, "tuple") /\ GateIdle
    \/ \E c \in Calls : ResolveFinish(c, Advances) /\ GateIdle
    \/ clearCache /\ UNCHANGED calls /\ GateIdle
    \/ RemoteUpdate(PdaA) /\ GateIdle

Spec == Init /\ [][Next]_vars

\* The same, with the calls' histories recording each clearCache that runs
\* while they are suspended.
NextClear ==
    \/ \E c \in Calls, args \in MainInputs :
          ResolveStart(c, args, Advances) /\ GateIdle
    \/ \E c \in Calls, ok \in BOOLEAN : DeriveDone(c, ok) /\ GateIdle
    \/ \E c \in Calls, fails \in BOOLEAN :
          FetchRespond(c, fails, "tuple") /\ GateIdle
    \/ \E c \in Calls : ResolveFinish(c, Advances) /\ GateIdle
    \/ clearCache /\ calls' = Overtaking(calls) /\ GateIdle
    \/ RemoteUpdate(PdaA) /\ GateIdle

SpecClear == Init /\ [][NextClear]_vars

\* Concurrent calls on several keys, nothing else moving.
NextKeys ==
    \/ \E c \in Calls, args \in KeyInputs :
          ResolveStart(c, args, {0}) /\ GateIdle
    \/ \E c \in Calls, ok \in BOOLEAN : DeriveDone(c, ok) /\ GateIdle
    \/ \E c \in Calls, fails \in BOOLEAN :
          FetchRespond(c, fails, "tuple") /\ GateIdle
    \/ \E c \in Calls : ResolveFinish(c, {0}) /\ GateIdle

SpecKeys == Init /\ [][NextKeys]_vars

\* One call for each of SeedInputs.
NextSeeds ==
    \/ \E args \in SeedInputs : ResolveStart(1, args, {0}) /\ GateIdle
    \/ \E ok \in BOOLEAN : DeriveDone(1, ok) /\ GateIdle
    \/ \E fails \in BOOLEAN : FetchRespond(1, fails, "tuple") /\ GateIdle
    \/ ResolveFinish(1, {0}) /\ GateIdle

SpecSeeds == Init /\ [][NextSeeds]_vars

\* One call against an account holding any of DecodeAccounts.
InitDecode ==
    /\ InitResolver
    /\ options = [none |-> TRUE]
    /\ \E account \in DecodeAccounts :
          remote = [InitialAccount EXCEPT ![PdaA] = account]
    /\ bytes = <<>>
    /\ encoded = NotRun
    /\ gate = NoGate
    /\ payment = NoPayment

NextDecode ==
    \/ \E args \in DecodeCallInputs : ResolveStart(1, args, {0}) /\ GateIdle
    \/ \E ok \in BOOLEAN : DeriveDone(1, ok) /\ GateIdle
    \/ \E fails \in BOOLEAN, shape \in DataShapes :
          FetchRespond(1, fails, shape) /\ GateIdle
    \/ ResolveFinish(1, {0}) /\ GateIdle

SpecDecode == InitDecode /\ [][NextDecode]_vars

\* encodeBase58 applied to one byte array.
InitBase58 ==
    /\ InitResolver
    /\ options = [none |-> TRUE]
    /\ remote = InitialAccount
    /\ bytes \in Base58Inputs
    /\ encoded = NotRun
    /\ gate = NoGate
    /\ payment = NoPayment

Encode ==
    /\ encoded = NotRun
    /\ encoded' = encodeBase58(bytes)
    /\ UNCHANGED << options, cacheTtlMs, cache, now, remote, calls, ticks, updates,
                    lastPut, dropped, bytes >>

NextBase58 == Encode /\ GateIdle

SpecBase58 == InitBase58 /\ [][NextBase58]_vars

\* ------------------------------------------------------------------------
\* NouxisSvmScheme.createPaymentPayload (client.ts): the fee split
\* ------------------------------------------------------------------------

\* "export const PROTOCOL_FEE_BPS = 300"
PROTOCOL_FEE_BPS == 300

Nouxis_TREASURY == "8VF2ZAp9C1RKeV2XmKBnCQdbhGuNZaLZ1x7mTCSGsMH9"

\* The divisor "10_000n" of the fee.
BpsDenominator == 10000

\* s with zero limbs in front, n limbs long.
PadLimbs(s, n) == Repeat(0, n - Len(s)) \o s

\* The limbs from i on of a are a smaller number than those of b (a and b
\* of one length): the first place where they differ decides.
SuffixLess(a, b, i) ==
    \E j \in i..Len(a) :
        a[j] < b[j] /\ \A k \in i..(j - 1) : a[k] = b[k]

\* a < b for two bigints.
BigLess(a, b) ==
    LET n == IF Len(a) > Len(b) THEN Len(a) ELSE Len(b)
    IN  SuffixLess(PadLimbs(a, n), PadLimbs(b, n), 1)

\* a - b for a >= b: each limb less the borrow of the limbs after it.
BigMinus(a, b) ==
    LET n == Len(a)
        y == PadLimbs(b, n)
        borrow(i) == IF SuffixLess(a, y, i + 1) THEN 1 ELSE 0
    IN  StripZeros([i \in 1..n |-> (a[i] - y[i] - borrow(i) + 256) % 256])

\* A bigint with its sign.
Signed(negative, abs) == [negative |-> negative, abs |-> abs]

\* "a - b" of two non-negative bigints.
BigSub(a, b) ==
    IF BigLess(a, b) THEN Signed(TRUE, BigMinus(b, a))
    ELSE Signed(FALSE, BigMinus(a, b))

\* The limbs from i on of a and b (of one length) add up to a carry.
SuffixCarries(a, b, i) ==
    \E j \in i..Len(a) :
        a[j] + b[j] >= 256 /\ \A k \in i..(j - 1) : a[k] + b[k] = 255

\* a + b for two bigints.
BigAdd(a, b) ==
    LET n == 1 + (IF Len(a) > Len(b) THEN Len(a) ELSE Len(b))
        x == PadLimbs(a, n)
        y == PadLimbs(b, n)
        carry(i) == IF SuffixCarries(x, y, i + 1) THEN 1 ELSE 0
    IN  StripZeros([i \in 1..n |-> (x[i] + y[i] + carry(i)) % 256])

\* The value of a decimal digit.
DigitValue(ch) == (CHOOSE i \in 1..10 : DecimalDigit[i] = ch) - 1

\* BigInt(text) of a text of decimal digits: up to n digits of st =
\* [text, num], most significant first.
RECURSIVE BigOfTextLoop(_, _)
BigOfTextLoop(st, n) ==
    IF st.text = <<>> THEN st
    ELSE IF n = 1
    THEN [text |-> Tail(st.text),
          num |-> BigMulAdd(st.num, 10, DigitValue(Head(st.text)))]
    ELSE BigOfTextLoop(BigOfTextLoop(st, n \div 2), n - (n \div 2))

BigOfText(text) ==
    BigOfTextLoop([text |-> text, num |-> <<>>], Len(text)).num

\* "paymentRequirements.extra?.protocolFeeBps ?? PROTOCOL_FEE_BPS"
FeeBpsOf(requirements) ==
    IF "protocolFeeBps" \in DOMAIN requirements.extra
    THEN requirements.extra.protocolFeeBps
    ELSE PROTOCOL_FEE_BPS

\* "paymentRequirements.extra?.treasury ?? Nouxis_TREASURY"
TreasuryOf(requirements) ==
    IF "treasury" \in DOMAIN requirements.extra
    THEN requirements.extra.treasury
    ELSE Nouxis_TREASURY

\* FeeAmount rounded up instead of down.
FeeAmountCeil(totalAmount, feeBps) ==
    BigDivMod(BigMulAdd(totalAmount, feeBps, BpsDenominator - 1),
              BpsDenominator).q

\* "(totalAmount * BigInt(feeBps)) / 10_000n"
FeeAmount(totalAmount, feeBps) ==
    BigDivMod(BigMulAdd(totalAmount, feeBps, 0), BpsDenominator).q

\* "getTransferCheckedInstruction({ ..., destination, amount, ... })", the
\* destination being the token account of owner.
TransferChecked(owner, amount) == [transferTo |-> owner, amount |-> amount]

\* Lines 84-135: the two transfer instructions.
SplitTransfers(requirements) ==
    LET totalAmount == BigOfText(requirements.amount)
        feeAmount == FeeAmount(totalAmount, FeeBpsOf(requirements))
        payeeAmount == BigSub(totalAmount, feeAmount)
    IN  << TransferChecked(requirements.payTo, payeeAmount),
           TransferChecked(TreasuryOf(requirements),
                           Signed(FALSE, feeAmount)) >>

\* createPaymentPayload: an asset of an unknown token program and a
\* missing extra.feePayer raise; otherwise the transaction carries the
\* compute-unit limit, the two transfers and the memo, in this order.
createPaymentPayload(requirements) ==
    IF ~requirements.knownTokenProgram
    THEN Thrown("Asset was not created by a known token program")
    ELSE IF "feePayer" \notin DOMAIN requirements.extra
    THEN Thrown("feePayer is required")
    ELSE [instructions |->
            <<[computeUnitLimit |-> 40000]>>
            \o SplitTransfers(requirements)
            \o <<[memo |-> "nonce"]>>,
          feePayer |-> requirements.extra.feePayer]

\* The amounts asked for, as the decimal texts of the requirement: 0, 1,
\* 33, 34, 99, 1000000, 2^53 + 1 and 2^64 - 1.
PaymentAmounts ==
    { <<"0">>, <<"1">>, <<"3","3">>, <<"3","4">>, <<"9","9">>,
      <<"1","0","0","0","0","0","0">>,
      <<"9","0","0","7","1","9","9","2","5","4","7","4","0","9","9","3">>,
      <<"1","8","4","4","6","7","4","4","0","7","3","7","0","9","5","5",
        "1","6","1","5">> }

\* The fee rates a requirement carries in extra.protocolFeeBps.
PaymentBps == {0, 1, 299, 300, 301, 9999, 10000, 10001}

\* The extra of a requirement: with or without rate, treasury and feePayer.
PaymentExtras ==
    LET rates == {[none |-> TRUE]} \cup { [protocolFeeBps |-> b] : b \in PaymentBps }
        treasuries == {[none |-> TRUE], [treasury |-> "OtherTreasury"]}
        payers == {[none |-> TRUE], [feePayer |-> "FeePayer"]}
        Fields(r) == { f \in DOMAIN r : f # "none" }
    IN  { [f \in Fields(r) \cup Fields(t) \cup Fields(p) |->
             IF f \in DOMAIN r THEN r[f]
             ELSE IF f \in DOMAIN t THEN t[f] ELSE p[f]] :
          r \in rates, t \in treasuries, p \in payers }

PaymentInputs ==
    { [amount |-> a, payTo |-> "PayTo", extra |-> e, knownTokenProgram |-> k] :
        a \in PaymentAmounts, e \in PaymentExtras, k \in BOOLEAN }

ResolverIdle ==
    UNCHANGED << options, cacheTtlMs, cache, now, remote, calls, ticks,
                 updates, lastPut, dropped, bytes, encoded >>

\* createPaymentPayload is asked for one requirement.
InitPayment ==
    /\ InitResolver
    /\ options = [none |-> TRUE]
    /\ remote = InitialAccount
    /\ bytes = <<>>
    /\ encoded = NotRun
    /\ gate = NoGate
    /\ payment \in { [pc |-> "asked", requirements |-> r] : r \in PaymentInputs }

CreatePaymentPayload ==
    /\ payment.pc = "asked"
    /\ payment' = [pc |-> "settled", requirements |-> payment.requirements,
                   outcome |-> createPaymentPayload(payment.requirements)]
    /\ UNCHANGED gate
    /\ ResolverIdle

NextPayment == CreatePaymentPayload

SpecPayment == InitPayment /\ [][NextPayment]_vars

\* ------------------------------------------------------------------------
\* NouxisPaymentGate (middleware.ts)
\* ------------------------------------------------------------------------

Nouxis_FACILITATOR_URL == "https://facilitator.nouxis.ai"

SOLANA_DEVNET == "solana:EtWTRABZaYq6iMfeYKouRu166VU2xqa1"

SOLANA_MAINNET == "solana:5eykt4UsFv8P8NJdTREpY1vzqKqZKvdp"

\* "a ?? b" for an optional field of a record.
FieldOr(rec, field, default) ==
    IF field \in DOMAIN rec THEN rec[field] ELSE default

\* The texts of the model that start with "solana:": the CAIP-2 ids of
\* the two clusters and one of a chain that is neither.
Caip2Texts == {SOLANA_DEVNET, SOLANA_MAINNET, "solana:custom"}

\* The networks a config names: the three names, the CAIP-2 texts, and a
\* text that is neither a known name nor one starting with "solana:".
Networks == {"devnet", "mainnet", "mainnet-beta", "testnet"} \cup Caip2Texts

\* getNetworkId; "network.startsWith('solana:')" is membership in
\* Caip2Texts.
getNetworkId(network) ==
    IF network = "devnet" THEN SOLANA_DEVNET
    ELSE IF network \in {"mainnet", "mainnet-beta"} THEN SOLANA_MAINNET
    ELSE IF network \in Caip2Texts THEN network
    ELSE SOLANA_DEVNET

\* getDefaultRpcUrl, for config.network or undefined.
getDefaultRpcUrl(config) ==
    IF "network" \in DOMAIN config
         /\ config.network \in {"mainnet", "mainnet-beta"}
    THEN "https://api.mainnet-beta.solana.com"
    ELSE "https://api.devnet.solana.com"

\* The cluster AgentResolver's constructor brands the endpoint with
\* (resolver.ts lines 55-59): "rpcUrl.includes('mainnet') ? mainnet(rpcUrl)
\* : rpcUrl.includes('devnet') ? devnet(rpcUrl) : rpcUrl", for the two
\* default endpoints and any other text.
ClusterOf(rpcUrl) ==
    IF rpcUrl = "https://api.mainnet-beta.solana.com" THEN "mainnet"
    ELSE IF rpcUrl = "https://api.devnet.solana.com" THEN "devnet"
    ELSE "unbranded"

\* The CAIP-2 id of a cluster, as the constants name them.
ClusterNetworkId(cluster) ==
    IF cluster = "mainnet" THEN SOLANA_MAINNET
    ELSE IF cluster = "devnet" THEN SOLANA_DEVNET
    ELSE "none"

\* "!config.x" for an optional text: undefined and the empty text are falsy.
Falsy(config, field) == field \notin DOMAIN config \/ config[field] = <<>>

\* "if (!config.payTo && !config.agentMint) throw"
MissingRecipient(config) ==
    Falsy(config, "payTo") /\ Falsy(config, "agentMint")

\* IsDynamic that lets a given payTo select the static mode.
IsDynamicUnlessPayTo(config) ==
    ~Falsy(config, "agentMint") /\ Falsy(config, "payTo")

\* "if (config.agentMint) { dynamic mode } else { static mode }"
IsDynamic(config) == ~Falsy(config, "agentMint")

\* "config.serviceType ?? 'a2a'"
GateServiceType(config) == FieldOr(config, "serviceType", A2A)

\* The arguments of "resolver.resolve(config.agentMint, serviceType)".
GateArgs(config) ==
    [agentMint |-> config.agentMint, serviceType |-> GateServiceType(config)]

\* "extra: { treasury, protocolFeeBps }", with agentMint in dynamic mode.
GateExtra(config) ==
    [treasury |-> FieldOr(config, "treasury", Nouxis_TREASURY),
     protocolFeeBps |-> FieldOr(config, "protocolFeeBps", PROTOCOL_FEE_BPS)]

\* A function the route hands to the payment middleware to call per request.
Callback(name) == [callback |-> name]

Value(v) == [value |-> v]

Undefined == [undefined |-> TRUE]

\* The route entry built for one route of the config.
BuiltRoute(config, routePayment) ==
    LET dynamic == IsDynamic(config)
        price == IF "price" \in DOMAIN routePayment
                 THEN Value(routePayment.price)
                 ELSE IF dynamic THEN Callback("price") ELSE Undefined
    IN  [accepts |->
            [scheme |-> "exact",
             network |-> getNetworkId(FieldOr(config, "network", "devnet")),
             payTo |-> IF dynamic THEN Callback("payTo")
                       ELSE Value(config.payTo),
             price |-> price,
             extra |-> IF dynamic
                       THEN [agentMint |-> config.agentMint,
                             treasury |-> GateExtra(config).treasury,
                             protocolFeeBps |-> GateExtra(config).protocolFeeBps]
                       ELSE GateExtra(config)],
         description |-> FieldOr(routePayment, "description",
                                 "Nouxis agent service"),
         mimeType |-> FieldOr(routePayment, "mimeType", "application/json")]

NoCallback == [kind |-> "none", outcome |-> None]

\* What the constructor leaves behind when it raises ...
ThrownGate(config) ==
    [pc |-> "thrown", config |-> config,
     error |-> "NouxisPaymentGate: either payTo or agentMint must be provided",
     resolver |-> FALSE, routes |-> EmptyMap,
     callbacks |-> [c \in DOMAIN calls |-> NoCallback]]

\* ... and the middleware it returns otherwise: dynamic mode creates the
\* resolver for rpcUrl, static mode does not.
BuiltGate(config) ==
    [pc |-> "built", config |-> config,
     mode |-> IF IsDynamic(config) THEN "dynamic" ELSE "static",
     facilitatorUrl |-> FieldOr(config, "facilitatorUrl",
                                Nouxis_FACILITATOR_URL),
     resolver |-> IsDynamic(config),
     rpcUrl |-> IF IsDynamic(config)
                THEN FieldOr(config, "rpcUrl", getDefaultRpcUrl(config))
                ELSE "none",
     routes |-> [r \in DOMAIN config.routes |->
                    BuiltRoute(config, config.routes[r])],
     callbacks |-> [c \in DOMAIN calls |-> NoCallback]]

\* The recipient of the static configs.
Wallet == Repeat("3", 32)

\* config.routes: one route without a price ...
RouteUnpriced == [r \in {"POST /"} |-> [description |-> "Agent query"]]

\* ... or with one, and no description.
RoutePriced == [r \in {"POST /"} |-> [price |-> "$0.001"]]

\* The configs: payTo omitted or given with agentMint omitted, empty, given
\* or given as a text that is not an address; payTo empty with agentMint
\* omitted or empty; then configs naming a network.
GateConfigs ==
    LET payTos == {[none |-> TRUE], [payTo |-> <<>>], [payTo |-> Wallet]}
        mints == {[none |-> TRUE], [agentMint |-> <<>>],
                  [agentMint |-> MintA], [agentMint |-> MintBad]}
        Fields(r) == { f \in DOMAIN r : f # "none" }
        pairs == { pm \in payTos \X mints :
                     pm[1] = [payTo |-> <<>>]
                        => pm[2] \in {[none |-> TRUE], [agentMint |-> <<>>]} }
    IN  { [f \in Fields(pm[1]) \cup Fields(pm[2]) \cup {"routes"} |->
             IF f = "routes" THEN RouteUnpriced
             ELSE IF f \in DOMAIN pm[1] THEN pm[1][f] ELSE pm[2][f]] :
          pm \in pairs }
        \cup { [payTo |-> Wallet, network |-> n, routes |-> RoutePriced] :
                 n \in Networks }
        \cup { [agentMint |-> MintBad, network |-> "mainnet",
                routes |-> RoutePriced] }

\* The "payTo" callback after "await resolver.resolve(...)", with the
\* check on the record left out: an inactive record's recipient is offered.
PayToOutcomeUnchecked(resolved) ==
    IF resolved = Null THEN Thrown("not found or inactive on-chain")
    ELSE [returns |-> resolved.payTo]

\* Lines 119-124: "if (!resolved || !resolved.active) throw ...; return
\* resolved.payTo".
PayToOutcome(resolved) ==
    IF resolved = Null \/ ~resolved.active
    THEN Thrown("not found or inactive on-chain")
    ELSE [returns |-> resolved.payTo]

\* Lines 88-103: what the pre-check logs for the result of its resolve.
PreCheckOutcome(r) ==
    IF r # Null /\ r.active THEN [logged |-> "resolved"]
    ELSE IF r # Null THEN [logged |-> "inactive"]
    ELSE [logged |-> "not found"]

\* What the account of the gate's requirement holds when the gate is
\* built: the active record, none, the inactive record, a blob too short.
GateAccounts ==
    { InitialAccount[PdaA], AccountVersion(PdaA, 2), AccountVersion(PdaA, 3),
      [data |-> <<1, 2, 3>>] }

\* A config is about to be handed to NouxisPaymentGate.  The account keeps
\* what it holds then for the length of the run.
InitGate ==
    /\ InitResolver
    /\ options = [none |-> TRUE]
    /\ \E account \in GateAccounts :
          remote = [InitialAccount EXCEPT ![PdaA] = account]
    /\ bytes = <<>>
    /\ encoded = NotRun
    /\ gate \in { [pc |-> "configured", config |-> cfg] : cfg \in GateConfigs }
    /\ payment = NoPayment

\* NouxisPaymentGate(config): validation, then the routes; in dynamic mode
\* the resolver is created and the pre-check's resolve is started, which
\* runs up to its first await.
NouxisPaymentGate ==
    LET config == gate.config
        built == BuiltGate(config)
    IN  /\ gate.pc = "configured"
        /\ IF MissingRecipient(config)
           THEN gate' = ThrownGate(config) /\ ResolverIdle
           ELSE IF IsDynamic(config)
           THEN /\ ResolveStart(1, GateArgs(config), {0})
                /\ gate' = [built EXCEPT !.callbacks[1].kind = "precheck"]
           ELSE gate' = built /\ ResolverIdle
        /\ UNCHANGED payment

\* The pre-check's ".then" handler runs on the result of its resolve.
PreCheckSettle ==
    /\ gate.pc = "built"
    /\ gate.callbacks[1] = [kind |-> "precheck", outcome |-> None]
    /\ calls[1].pc = "done"
    /\ gate' = [gate EXCEPT !.callbacks[1].outcome =
                                PreCheckOutcome(calls[1].result)]
    /\ UNCHANGED payment
    /\ ResolverIdle

\* A request makes the payment middleware call the route's payTo callback,
\* which calls resolve and suspends on it.
PayToCallback(c, ds) ==
    /\ gate.pc = "built"
    /\ gate.mode = "dynamic"
    /\ ResolveStart(c, GateArgs(gate.config), ds)
    /\ gate' = [gate EXCEPT !.callbacks[c].kind = "payTo"]
    /\ UNCHANGED payment

\* "await resolver.resolve(...)" of the payTo callback settles: the check,
\* then the recipient or the error.
PayToSettle(c) ==
    /\ gate.pc = "built"
    /\ gate.callbacks[c] = [kind |-> "payTo", outcome |-> None]
    /\ calls[c].pc = "done"
    /\ gate' = [gate EXCEPT !.callbacks[c].outcome =
                                PayToOutcome(calls[c].result)]
    /\ UNCHANGED payment
    /\ ResolverIdle

\* A text of decimal digits without the zeros it ends with.
RECURSIVE StripTrailingZeros(_)
StripTrailingZeros(digits) ==
    IF digits = <<>> \/ digits[Len(digits)] # "0" THEN digits
    ELSE StripTrailingZeros(SubSeq(digits, 1, Len(digits) - 1))

\* Lines 140-141: "`$${Number(resolved.amount) / 1_000_000}`" for an
\* amount of at most 15 digits, where the quotient prints as the amount
\* with the point six places from its end and no zeros after the last
\* fraction digit: "1000000" gives "$1", "1500000" "$1.5", "1" "$0.000001".
DollarsText(amount) ==
    LET padded == IF Len(amount) < 7
                  THEN Repeat("0", 7 - Len(amount)) \o amount ELSE amount
        whole == SubSeq(padded, 1, Len(padded) - 6)
        cents == StripTrailingZeros(
                     SubSeq(padded, Len(padded) - 5, Len(padded)))
    IN  <<"$">> \o whole \o (IF cents = <<>> THEN <<>> ELSE <<".">> \o cents)

\* Lines 134-141: the "price" callback after "await resolver.resolve(...)":
\* "if (!resolved) throw ...; return `$${dollars}`", with no look at
\* resolved.active.
PriceOutcome(resolved) ==
    IF resolved = Null THEN Thrown("not found on-chain")
    ELSE [returns |-> DollarsText(resolved.amount)]

\* The payment middleware has called the callback of this kind.
Called(kind) ==
    gate.pc = "built" /\ \E c \in DOMAIN calls : gate.callbacks[c].kind = kind

\* A request makes the payment middleware call the route's price callback,
\* which the route has when its config gives no price; the callback calls
\* resolve and suspends on it.
PriceCallback(c, ds) ==
    /\ gate.pc = "built"
    /\ gate.mode = "dynamic"
    /\ \E r \in DOMAIN gate.routes :
          gate.routes[r].accepts.price = Callback("price")
    /\ ResolveStart(c, GateArgs(gate.config), ds)
    /\ gate' = [gate EXCEPT !.callbacks[c].kind = "price"]
    /\ UNCHANGED payment

\* "await resolver.resolve(...)" of the price callback settles: the check,
\* then the price text or the error.
PriceSettle(c) ==
    /\ gate.pc = "built"
    /\ gate.callbacks[c] = [kind |-> "price", outcome |-> None]
    /\ calls[c].pc = "done"
    /\ gate' = [gate EXCEPT !.callbacks[c].outcome =
                                PriceOutcome(calls[c].result)]
    /\ UNCHANGED payment
    /\ ResolverIdle

\* What a clock reading of the gate's runs may show to have passed.
GateAdvances == {0, cacheTtlMs}

NextGate ==
    \/ NouxisPaymentGate
    \/ PreCheckSettle
    \/ \E c \in Calls : PayToCallback(c, GateAdvances)
    \/ \E c \in Calls : PayToSettle(c)
    \/ \E c \in Calls, ok \in BOOLEAN : DeriveDone(c, ok) /\ GateIdle
    \/ \E c \in Calls, fails \in BOOLEAN :
          FetchRespond(c, fails, "tuple") /\ GateIdle
    \/ \E c \in Calls : ResolveFinish(c, GateAdvances) /\ GateIdle

SpecGate == InitGate /\ [][NextGate]_vars

\* The dynamic configs without rpcUrl: network unset, or one of Networks.
NetworkConfigs ==
    { [agentMint |-> MintA, routes |-> RouteUnpriced] }
        \cup { [agentMint |-> MintA, network |-> n, routes |-> RouteUnpriced] :
                 n \in Networks }

\* One of them is about to be handed to NouxisPaymentGate.
InitNetwork ==
    /\ InitResolver
    /\ options = [none |-> TRUE]
    /\ remote = InitialAccount
    /\ bytes = <<>>
    /\ encoded = NotRun
    /\ gate \in { [pc |-> "configured", config |-> cfg] :
                     cfg \in NetworkConfigs }
    /\ payment = NoPayment

\* The gate over these configs.
SpecNetwork == InitNetwork /\ [][NextGate]_vars

\* The resolve calls of a gate that serves one request: the pre-check's,
\* then one of each callback the request's route has.
ChallengeCalls == 1..3

\* The recipient the requirement's account names before the remote program
\* rewrites the account: another than the one it names afterwards.
FormerRecipient == PdaTag(PdaA) + 1

\* A dynamic config whose route gives no price, and one whose route does.
ChallengeConfigs ==
    { [agentMint |-> MintA, routes |-> RouteUnpriced],
      [agentMint |-> MintA, routes |-> RoutePriced] }

\* A dynamic config is about to be handed to NouxisPaymentGate, the
\* requirement's account holding an active record.
InitChallenge ==
    /\ options = [none |-> TRUE]
    /\ cacheTtlMs = TtlOf(options)
    /\ cache = EmptyMap
    /\ now = 0
    /\ calls = [c \in ChallengeCalls |-> IdleCall]
    /\ ticks = 0
    /\ updates = 0
    /\ lastPut = EmptyMap
    /\ dropped = EmptyMap
    /\ remote = [InitialAccount EXCEPT
                   ![PdaA] = [data |-> GoodBlob(Amount1M, FormerRecipient, 1)]]
    /\ bytes = <<>>
    /\ encoded = NotRun
    /\ gate \in { [pc |-> "configured", config |-> cfg] :
                     cfg \in ChallengeConfigs }
    /\ payment = NoPayment

\* One request to the gate's route while its record expires from the
\* cache, its fetches fail or the remote program rewrites the account.  The
\* payment middleware calls each callback of the route once for the
\* request, in either order.
NextChallenge ==
    \/ NouxisPaymentGate
    \/ PreCheckSettle
    \/ \E c \in ChallengeCalls :
          ~Called("payTo") /\ PayToCallback(c, GateAdvances)
    \/ \E c \in ChallengeCalls : PayToSettle(c)
    \/ \E c \in ChallengeCalls :
          ~Called("price") /\ PriceCallback(c, GateAdvances)
    \/ \E c \in ChallengeCalls : PriceSettle(c)
    \/ \E c \in ChallengeCalls, ok \in BOOLEAN : DeriveDone(c, ok) /\ GateIdle
    \/ \E c \in ChallengeCalls, fails \in BOOLEAN :
          FetchRespond(c, fails, "tuple") /\ GateIdle
    \/ \E c \in ChallengeCalls : ResolveFinish(c, GateAdvances) /\ GateIdle
    \/ RemoteUpdate(PdaA) /\ GateIdle

SpecChallenge == InitChallenge /\ [][NextChallenge]_vars

\* ------------------------------------------------------------------------
\* Vocabulary of the properties
\* ------------------------------------------------------------------------

Done(c) == calls[c].pc = "done"

\* The call was answered from the cache at its probe.
ServedFromCache(c) == calls[c].steps = <<"probe", "hit">>

\* Number of fetches (getAccountInfo sends) the call has issued.
FetchesOf(c) ==
    Cardinality({ i \in 1..Len(calls[c].steps) : calls[c].steps[i] = "fetch" })

\* The (subject, category) pair a call resolves.
PairOf(args) == << args.agentMint, ServiceTypeOf(args) >>

\* The bytes the RPC node handed to the call, when it handed any.
HasData(c) ==
    /\ calls[c].response # None
    /\ ~IsThrown(calls[c].response)
    /\ calls[c].response.value # NoAccount
    /\ calls[c].response.value.data.shape \in {"tuple", "string"}

DataOf(c) == calls[c].response.value.data.base64

\* The layout of the account, read off the blob independently of the
\* decoder: the u32 at byte k, and whether position n lies inside the blob.
LayoutU32(b, k) ==
    [hi |-> b[k + 3] + 256 * b[k + 4], lo |-> b[k + 1] + 256 * b[k + 2]]

Inside(b, n) == n.hi = 0 /\ n.lo < Len(b)

DescLenOf(b) == LayoutU32(b, 114)

ResOffsetOf(b) == NumAdd(Num(118), DescLenOf(b))

ResLenOf(b) == LayoutU32(b, ResOffsetOf(b).lo)

ActiveOffsetOf(b) == NumAdd(NumAdd(ResOffsetOf(b), Num(4)), ResLenOf(b))

\* Every field the decoder keeps or measures lies inside the blob.
InBounds(b) ==
    /\ Len(b) >= 118
    /\ Inside(b, NumAdd(ResOffsetOf(b), Num(3)))
    /\ Inside(b, ActiveOffsetOf(b))

\* The four fail-soft kinds of the error taxonomy, for a finished call.
DerivationFailure(c) ==
    \/ ~IsAddress(calls[c].args.agentMint)
    \/ calls[c].steps = <<"probe", "derive">>

TransportFailure(c) ==
    calls[c].response # None /\ IsThrown(calls[c].response)

NotFound(c) ==
    /\ calls[c].response # None
    /\ ~IsThrown(calls[c].response)
    /\ calls[c].response.value = NoAccount

\* n <= Len(b), for a number n in halves.
Within(b, n) == n.hi = 0 /\ n.lo <= Len(b)

\* The minimum prefix: 8-byte discriminator and 32-byte subject address.
TooShort(b) == Len(b) < 40

\* The description's declared length runs past the end of the blob.
DescOverrun(b) == Len(b) >= 118 /\ ~Within(b, ResOffsetOf(b))

\* The resource's declared length runs past the end of the blob.
ResOverrun(b) ==
    /\ Len(b) >= 118
    /\ Inside(b, NumAdd(ResOffsetOf(b), Num(3)))
    /\ ~Within(b, ActiveOffsetOf(b))

Malformed(c) ==
    /\ HasData(c)
    /\ TooShort(DataOf(c)) \/ DescOverrun(DataOf(c)) \/ ResOverrun(DataOf(c))

\* ------------------------------------------------------------------------
\* C1
\* ------------------------------------------------------------------------

\* C1 (as claimed): a finished resolve call never holds a thrown error, and
\* it returned null whenever the fetch found no account, the blob was too
\* short or had a length prefix running past its end, the fetch raised, or
\* the subject was not an address or the derivation failed.
C1_FailSoftAllKinds ==
    \A c \in Calls :
        Done(c) =>
            /\ ~IsThrown(calls[c].result)
            /\ (DerivationFailure(c) \/ TransportFailure(c) \/ NotFound(c)
                    \/ Malformed(c))
                  => calls[c].result = Null

\* ------------------------------------------------------------------------
\* C2
\* ------------------------------------------------------------------------

\* C2: a call that finds an entry for its key, put at time t0, is served
\* from the cache (the cached record, no derivation, no fetch) iff the time
\* of its probe is below t0 + T; otherwise it takes the miss path, on which
\* it fetches once its derivation has succeeded.  T is 30000 when the
\* constructor got no cacheTtlMs, and the given value otherwise.
C2_TtlBoundary ==
    /\ ("cacheTtlMs" \notin DOMAIN options) => cacheTtlMs = 30000
    /\ ("cacheTtlMs" \in DOMAIN options) => cacheTtlMs = options.cacheTtlMs
    /\ \A c \in Calls :
          (calls[c].pc # "idle" /\ calls[c].seen # None) =>
              LET fresh == calls[c].startedAt < calls[c].seen.at + cacheTtlMs
              IN  /\ ServedFromCache(c) <=> fresh
                  /\ fresh => /\ Done(c)
                              /\ calls[c].result = calls[c].seen.returned
                              /\ FetchesOf(c) = 0
                  /\ ~fresh => /\ calls[c].steps[1] = "probe"
                               /\ calls[c].pc \in {"fetch", "respond"}
                                     => FetchesOf(c) = 1
                               /\ (Done(c) /\ calls[c].result # Null)
                                     => FetchesOf(c) = 1

\* The default TTL at work: an entry put at t = 0 serves a call at t = 29999,
\* while another entry's put shows the expiry at exactly t0 + 30000.
C2_Witness ==
    /\ "cacheTtlMs" \notin DOMAIN options
    /\ \E c \in Calls :
          /\ calls[c].seen # None
          /\ calls[c].seen.at = 0
          /\ calls[c].startedAt = 29999
          /\ ServedFromCache(c)

\* Over the boundary: the same entry no longer serves a call at t = 30000.
C2_WitnessExpired ==
    /\ "cacheTtlMs" \notin DOMAIN options
    /\ \E c \in Calls :
          /\ calls[c].seen # None
          /\ calls[c].seen.at = 0
          /\ calls[c].startedAt = 30000
          /\ FetchesOf(c) = 1

\* ------------------------------------------------------------------------
\* C3
\* ------------------------------------------------------------------------

\* C3: when call a fetched, cached and returned a record, and a later call b
\* with the same key finds that entry (no clear since) before its expiry,
\* then b returns the identical record and the two calls issued exactly one
\* fetch between them.
C3_Idempotence ==
    \A a, b \in Calls :
        ( /\ a # b
          /\ Done(a) /\ Done(b)
          /\ calls[a].cacheKey = calls[b].cacheKey
          /\ calls[a].steps = <<"probe", "derive", "fetch", "decode", "put">>
          /\ calls[b].seen # None
          /\ calls[b].seen.call = a
          /\ calls[b].startedAt < calls[b].seen.at + cacheTtlMs )
        => /\ calls[b].result = calls[a].result
           /\ calls[a].result # Null
           /\ FetchesOf(a) + FetchesOf(b) = 1

C3_Witness ==
    \E a, b \in Calls :
        /\ a # b
        /\ Done(a) /\ Done(b)
        /\ calls[a].steps = <<"probe", "derive", "fetch", "decode", "put">>
        /\ calls[b].seen # None
        /\ calls[b].seen.call = a
        /\ calls[b].startedAt > calls[b].seen.at
        /\ calls[b].startedAt < calls[b].seen.at + cacheTtlMs
        /\ calls[b].result = calls[a].result

\* ------------------------------------------------------------------------
\* C4
\* ------------------------------------------------------------------------

\* C4 (as claimed): a call served from the cache gets a record that was
\* cached by a call for its own (subject, category) pair.
C4_CacheIsolation ==
    \A c \in Calls :
        (Done(c) /\ ServedFromCache(c)) =>
            PairOf(calls[c].seen.by) = PairOf(calls[c].args)

\* ------------------------------------------------------------------------
\* C5
\* ------------------------------------------------------------------------

\* The call decoded its blob into a record, which it cached and returned.
Decoded(c) == Done(c) /\ HasData(c) /\ calls[c].result # Null

\* C5 (as claimed): a call that was handed a blob either returns null and
\* caches nothing, or returns a record whose kept fields all lie inside the
\* blob: amount, asset and recipient below offset 114, both length prefixes
\* and the active flag byte at 122 + descLen + resLen.
C5_DecodeInBounds ==
    \A c \in Calls :
        (Done(c) /\ HasData(c)) =>
            \/ /\ calls[c].result = Null
               /\ calls[c].cacheKey \notin DOMAIN cache
            \/ /\ calls[c].result # Null
               /\ InBounds(DataOf(c))

\* ------------------------------------------------------------------------
\* C6
\* ------------------------------------------------------------------------

\* C6 (as claimed): a blob shorter than 40 bytes is rejected before the
\* decoder is entered, so no field read is attempted and no range error is
\* raised; resolve returns null.
C6_RejectedBeforeAnyRead ==
    \A c \in Calls :
        (Done(c) /\ HasData(c) /\ Len(DataOf(c)) < 40) =>
            /\ calls[c].result = Null
            /\ calls[c].steps = <<"probe", "derive", "fetch">>

\* What the code does guarantee for C6's blobs: a blob shorter than 40 bytes
\* always makes resolve return null with nothing cached; below 8 bytes
\* it is rejected by the length check before the decoder is entered, and
\* from 8 to 39 bytes the decoder is entered and its amount read at offset
\* 42 raises a RangeError that the decoder catches.
C6_ShortBlobAbsent ==
    \A c \in Calls :
        (Done(c) /\ HasData(c) /\ Len(DataOf(c)) < 40) =>
            /\ calls[c].result = Null
            /\ calls[c].cacheKey \notin DOMAIN cache
            /\ Len(DataOf(c)) < 8
                  => calls[c].steps = <<"probe", "derive", "fetch">>
            /\ Len(DataOf(c)) >= 8
                  => /\ calls[c].steps = <<"probe", "derive", "fetch", "decode">>
                     /\ DeserializeTry(DataOf(c)) = Thrown("RangeError")

\* A 39-byte blob went through the decoder and came out as null.
C6_Witness ==
    \E c \in Calls :
        /\ Done(c) /\ HasData(c)
        /\ Len(DataOf(c)) = 39
        /\ calls[c].steps = <<"probe", "derive", "fetch", "decode">>
        /\ calls[c].result = Null

\* ------------------------------------------------------------------------
\* C7
\* ------------------------------------------------------------------------

\* The description length prefix is present and reads 0xFFFFFFFF.
DescLenAllOnes(b) ==
    Len(b) >= 118 /\ DescLenOf(b) = [hi |-> 65535, lo |-> 65535]

\* C7: a blob whose description length prefix is 0xFFFFFFFF makes resolve
\* return null and cache nothing, whatever else the blob holds: the decoder
\* only advances its offset by the declared length, and the read of the next
\* length prefix at that offset raises the RangeError it catches.
C7_HugeDescriptionLength ==
    \A c \in Calls :
        (Done(c) /\ HasData(c) /\ DescLenAllOnes(DataOf(c))) =>
            /\ calls[c].result = Null
            /\ calls[c].steps = <<"probe", "derive", "fetch", "decode">>
            /\ calls[c].cacheKey \notin DOMAIN cache
            /\ DeserializeTry(DataOf(c)) = Thrown("RangeError")

C7_Witness ==
    \E c \in Calls :
        /\ Done(c) /\ HasData(c)
        /\ DescLenAllOnes(DataOf(c))
        /\ Len(DataOf(c)) > 122
        /\ calls[c].result = Null

\* ------------------------------------------------------------------------
\* C8
\* ------------------------------------------------------------------------

\* The number a decimal text spells.
RECURSIVE DecimalValue(_)
DecimalValue(st) ==
    IF st.text = <<>> THEN st.num
    ELSE DecimalValue(
           [text |-> Tail(st.text),
            num |-> BigMulAdd(st.num, 10,
                      (CHOOSE d \in 1..10 : DecimalDigit[d] = Head(st.text))
                          - 1)])

\* The base-58 texts of 32 x 0x01 and 32 x 0x02.
Text32x01 ==
    << "4","v","J","9","J","U","1","b","J","J","E","9","6","F","W","S","J",
       "K","v","H","s","m","m","F","A","D","C","g","4","g","p","Z","Q","f",
       "f","4","P","3","b","k","L","K","i" >>

Text32x02 ==
    << "8","q","b","H","b","w","2","B","b","b","T","H","B","W","1","s","b",
       "e","q","a","k","Y","X","V","K","R","Q","M","8","N","e","7","p","L",
       "K","7","m","6","C","V","f","e","R" >>

\* Both declared lengths end inside the blob.
PrefixesInBounds(b) ==
    /\ Len(b) >= 118
    /\ Inside(b, NumAdd(ResOffsetOf(b), Num(3)))
    /\ Within(b, ActiveOffsetOf(b))

C8_WitnessSynthetic ==
    \E c \in Calls : Decoded(c) /\ DataOf(c) = SyntheticBlob

\* ------------------------------------------------------------------------
\* C9
\* ------------------------------------------------------------------------

\* The number of zero bytes ahead of the first non-zero byte.
ZeroPrefix(b) ==
    CHOOSE z \in 0..Len(b) :
        /\ \A i \in 1..z : b[i] = 0
        /\ z < Len(b) => b[z + 1] # 0

\* C9: the encoding starts with one '1' per leading zero byte; what follows
\* is empty when no other byte exists, and else starts with another symbol
\* and spells the big-endian integer of the remaining bytes; 32 zero bytes
\* encode as 32 copies of '1'.
C9_LeadingZeros ==
    encoded # NotRun =>
        LET z == ZeroPrefix(bytes)
            rest == SubSeq(encoded, z + 1, Len(encoded))
        IN  /\ Len(encoded) >= z
            /\ \A i \in 1..z : encoded[i] = "1"
            /\ (z = Len(bytes)) = (rest = <<>>)
            /\ rest # <<>> => rest[1] # "1"
            /\ Base58Value([text |-> rest, num |-> <<>>])
                  = SubSeq(bytes, z + 1, Len(bytes))
            /\ bytes = Repeat(0, 32) => encoded = Repeat("1", 32)

\* Leading zeros ahead of other bytes were encoded.
C9_Witness ==
    /\ encoded # NotRun
    /\ ZeroPrefix(bytes) = 5
    /\ Len(bytes) = 32
    /\ Len(encoded) > 5

\* 32 zero bytes were encoded.
C9_WitnessAllZero == bytes = Repeat(0, 32) /\ encoded = Repeat("1", 32)

\* ------------------------------------------------------------------------
\* C10
\* ------------------------------------------------------------------------

\* C10: for an array of 1 to 64 bytes, reading the encoding back (zero
\* bytes for the leading '1' symbols, the rest as a big-endian base-58
\* number) gives the array that was encoded, and every symbol of the
\* encoding belongs to the alphabet.
C10_RoundTrip ==
    (encoded # NotRun /\ Len(bytes) \in 1..64) =>
        /\ \A i \in 1..Len(encoded) : Base58Index(encoded[i]) >= 0
        /\ Base58Bytes(encoded) = bytes

\* A 64-byte array with a leading zero was encoded and read back.
C10_Witness ==
    /\ encoded # NotRun
    /\ Len(bytes) = 64
    /\ bytes[1] = 0
    /\ bytes[2] = 58
    /\ Base58Bytes(encoded) = bytes

\* ------------------------------------------------------------------------
\* C11  clearCache drops every entry: the step that removes puts leaves the
\* cache without an entry for any key, and a call that then finds its key
\* removed is not served from the cache but goes down the miss path and,
\* its derivation done, performs its one fetch, whether or not the removed
\* entry's time to live had run out.
\* ------------------------------------------------------------------------
C11_ClearDropsAll ==
    /\ [][dropped' # dropped => cache' = EmptyMap]_vars
    /\ [](\A c \in Calls :
            calls[c].cleared # None
            => /\ ~ServedFromCache(c)
               /\ calls[c].steps[2] = "derive"
               /\ calls[c].pda # None => FetchesOf(c) = 1)

\* A call found its key removed by clearCache while the removed entry was
\* still live, fetched and returned the record.
C11_Witness ==
    \E c \in Calls :
        /\ calls[c].cleared # None
        /\ calls[c].startedAt < calls[c].cleared.at + cacheTtlMs
        /\ cache = EmptyMap
        /\ calls[c].pc = "respond"
        /\ FetchesOf(c) = 1

\* ------------------------------------------------------------------------
\* C12  No single flight, last put wins: every call that missed at its
\* probe issues its own fetch once its derivation is done, however many
\* calls for the key are in flight, and the entry of a key is at all times
\* the pair the most recent put for the key wrote: that call's returned
\* record with the expiry of that put, not one put's record under another
\* put's expiry.
\* ------------------------------------------------------------------------
C12_LastPutWins ==
    /\ \A c \in Calls :
          (calls[c].pc # "idle" /\ ~ServedFromCache(c) /\ calls[c].pda # None)
              => FetchesOf(c) = 1
    /\ \A k \in DOMAIN cache :
          /\ k \in DOMAIN lastPut
          /\ cache[k].data = calls[lastPut[k].call].result
          /\ cache[k] = [data |-> lastPut[k].returned,
                         expiresAt |-> lastPut[k].at + cacheTtlMs]

\* All the calls probed before any of them stored, each fetched, and their
\* puts came at different times with different records.
C12_Witness ==
    /\ \A c \in Calls :
          /\ calls[c].seen = None /\ calls[c].cleared = None
          /\ calls[c].steps = <<"probe", "derive", "fetch", "decode", "put">>
    /\ \E a, b \in Calls :
          /\ calls[a].result # calls[b].result
          /\ lastPut[calls[a].cacheKey].call = b
          /\ lastPut[calls[a].cacheKey].at > 0

\* ------------------------------------------------------------------------
\* C13  The fee split conserves the payment: for a total >= 0 and a rate of
\* 0..10000 basis points, a built payload carries a transfer of total - fee
\* to payTo and one of fee = floor(total * bps / 10000) to the treasury,
\* neither negative and adding up to the total; with the default rate the
\* payee's share is 97% of the total, rounded up to a whole unit.
\* ------------------------------------------------------------------------
C13_FeeSplitConserves ==
    (payment.pc = "settled" /\ ~IsThrown(payment.outcome))
    => LET req == payment.requirements
           total == BigOfText(req.amount)
           bps == IF "protocolFeeBps" \in DOMAIN req.extra
                  THEN req.extra.protocolFeeBps ELSE 300
           toPayee == payment.outcome.instructions[2]
           toTreasury == payment.outcome.instructions[3]
           payee == toPayee.amount
           fee == toTreasury.amount
           timesBps == BigMulAdd(total, bps, 0)
       IN  /\ BigToString(total) = req.amount
           /\ Len(payment.outcome.instructions) = 4
           /\ toPayee.transferTo = req.payTo
           /\ toTreasury.transferTo =
                 (IF "treasury" \in DOMAIN req.extra THEN req.extra.treasury
                  ELSE Nouxis_TREASURY)
           /\ bps <= 10000
              => /\ ~fee.negative /\ ~payee.negative
                 /\ ~BigLess(timesBps, BigMulAdd(fee.abs, 10000, 0))
                 /\ BigLess(timesBps, BigMulAdd(fee.abs, 10000, 10000))
                 /\ BigAdd(payee.abs, fee.abs) = total
           /\ bps = 300
              => /\ ~BigLess(BigMulAdd(payee.abs, 100, 0),
                             BigMulAdd(total, 97, 0))
                 /\ BigLess(BigMulAdd(payee.abs, 100, 0),
                            BigMulAdd(total, 97, 100))

\* 34 units at the default rate: 1 unit of fee, 33 units to the payee.
C13_Witness ==
    /\ payment.pc = "settled"
    /\ ~IsThrown(payment.outcome)
    /\ "protocolFeeBps" \notin DOMAIN payment.requirements.extra
    /\ payment.requirements.amount = <<"3", "4">>
    /\ payment.outcome.instructions[2].amount = Signed(FALSE, <<33>>)
    /\ payment.outcome.instructions[3].amount = Signed(FALSE, <<1>>)

\* 2^64 - 1 units at 9999 basis points are split without loss.
C13_WitnessLarge ==
    /\ payment.pc = "settled"
    /\ ~IsThrown(payment.outcome)
    /\ payment.requirements.amount \notin
          { <<"0">>, <<"1">>, <<"3","3">>, <<"3","4">>, <<"9","9">>,
            <<"1","0","0","0","0","0","0">> }
    /\ Len(payment.requirements.amount) = 20
    /\ BigToString(payment.outcome.instructions[3].amount.abs)
          = <<"1","8","4","4","4","8","9","9","3","9","9","3","0","2","1","8",
              "0","6","5","9">>

\* ------------------------------------------------------------------------
\* C14  Gate configuration: with neither payTo nor agentMint given (a text
\* counts as given when it is not empty) the constructor raises, and has
\* then created no resolver, no route and started no resolve; with
\* agentMint given the gate is built in dynamic mode, its routes carrying
\* the payTo callback and not config.payTo, whether or not payTo is given
\* too; with payTo alone it is static and has no resolver.
\* ------------------------------------------------------------------------
C14_GateConfiguration ==
    gate.pc \in {"built", "thrown"}
    => LET config == gate.config
           Given(f) == f \in DOMAIN config /\ config[f] # <<>>
       IN  /\ (~Given("payTo") /\ ~Given("agentMint"))
                 => /\ gate.pc = "thrown"
                    /\ ~gate.resolver
                    /\ gate.routes = EmptyMap
                    /\ \A c \in Calls : calls[c].pc = "idle"
           /\ Given("agentMint")
                 => /\ gate.pc = "built"
                    /\ gate.mode = "dynamic"
                    /\ gate.resolver
                    /\ DOMAIN gate.routes = DOMAIN config.routes
                    /\ \A r \in DOMAIN gate.routes :
                          gate.routes[r].accepts.payTo = [callback |-> "payTo"]
                    /\ calls[1].pc # "idle"
                    /\ calls[1].args.agentMint = config.agentMint
           /\ (Given("payTo") /\ ~Given("agentMint"))
                 => /\ gate.pc = "built"
                    /\ gate.mode = "static"
                    /\ ~gate.resolver
                    /\ \A r \in DOMAIN gate.routes :
                          gate.routes[r].accepts.payTo = [value |-> config.payTo]
                    /\ \A c \in Calls : calls[c].pc = "idle"

\* Both payTo and agentMint given: the gate is dynamic and a request's
\* payTo callback has returned the resolved recipient, not config.payTo.
C14_Witness ==
    /\ gate.pc = "built"
    /\ "payTo" \in DOMAIN gate.config /\ gate.config.payTo = Wallet
    /\ "agentMint" \in DOMAIN gate.config /\ gate.config.agentMint = MintA
    /\ gate.mode = "dynamic"
    /\ \E c \in Calls :
          /\ gate.callbacks[c].kind = "payTo"
          /\ "returns" \in DOMAIN gate.callbacks[c].outcome
          /\ gate.callbacks[c].outcome.returns # Wallet

\* Neither given: the constructor has raised.
C14_WitnessThrown ==
    /\ gate.pc = "thrown"
    /\ DOMAIN gate.config = {"routes"}

\* ------------------------------------------------------------------------
\* C19  Deny on absent or inactive: a settled payTo callback has returned
\* an address exactly when its resolve returned a record with active true,
\* and then that record's payTo; it has raised whenever resolve returned
\* the absent result, whatever made it absent, or an inactive record, also
\* when the record came from the cache.
\* ------------------------------------------------------------------------
C19_DenyAbsentOrInactive ==
    \A c \in Calls :
        (gate.pc = "built" /\ gate.callbacks[c].kind = "payTo"
            /\ gate.callbacks[c].outcome # None)
        => LET outcome == gate.callbacks[c].outcome
               resolved == calls[c].result
               offers == "returns" \in DOMAIN outcome
           IN  /\ offers <=> (resolved # Null /\ resolved.active = TRUE)
               /\ ~offers => IsThrown(outcome)
               /\ offers => outcome.returns = resolved.payTo
               /\ (DerivationFailure(c) \/ TransportFailure(c) \/ NotFound(c))
                    => IsThrown(outcome)

\* The callback was served the cached inactive record and raised.
C19_Witness ==
    \E c \in Calls :
        /\ gate.pc = "built"
        /\ gate.callbacks[c].kind = "payTo"
        /\ ServedFromCache(c)
        /\ calls[c].result # Null
        /\ ~calls[c].result.active
        /\ IsThrown(gate.callbacks[c].outcome)

\* The callback raised on the absent result of a resolve that found no
\* account.
C19_WitnessAbsent ==
    \E c \in Calls :
        /\ gate.pc = "built"
        /\ gate.callbacks[c].kind = "payTo"
        /\ Done(c) /\ NotFound(c)
        /\ calls[c].result = Null
        /\ IsThrown(gate.callbacks[c].outcome)

\* ------------------------------------------------------------------------
\* C15  Pipeline order and call counts: a call is served at its probe iff
\* it found a live entry, and then no derivation, fetch or decode is made
\* for it; every other call's steps are a prefix of probe, derive, fetch,
\* decode, put, so each step is made at most once and in this order, the
\* fetch only after a derivation that gave an address, the decode only on
\* account data of 8 bytes or more handed over by the fetch, the put only
\* for a decoded record; a finished call that stopped short of the put
\* returned the absent result.
\* ------------------------------------------------------------------------
C15_PipelineOrder ==
    \A c \in Calls :
        calls[c].pc # "idle"
        => LET call == calls[c]
               all == <<"probe", "derive", "fetch", "decode", "put">>
               live == /\ call.seen # None
                       /\ call.startedAt < call.seen.at + cacheTtlMs
               Made(step) == \E i \in 1..Len(call.steps) : call.steps[i] = step
           IN  /\ ServedFromCache(c) <=> live
               /\ live => (call.pda = None /\ call.response = None /\ Done(c))
               /\ ~live =>
                    /\ \E n \in 2..5 : call.steps = SubSeq(all, 1, n)
                    /\ Made("fetch") =>
                          (IsAddress(call.args.agentMint) /\ call.pda # None)
                    /\ Made("decode") =>
                          (HasData(c) /\ Len(DataOf(c)) >= 8)
                    /\ Made("put") => (Made("decode") /\ call.result # Null)
                    /\ (Done(c) /\ ~Made("put")) => call.result = Null
                    /\ (Done(c) /\ ~Made("fetch")) => call.response = None

\* A call that found an expired entry went through all five steps once.
C15_Witness ==
    \E c \in Calls :
        /\ calls[c].seen # None
        /\ calls[c].startedAt >= calls[c].seen.at + cacheTtlMs
        /\ calls[c].steps = <<"probe", "derive", "fetch", "decode", "put">>
        /\ Done(c)

\* A call stopped after its fetch, which handed over too few bytes.
C15_WitnessStopped ==
    \E c \in Calls :
        /\ Done(c)
        /\ HasData(c) /\ Len(DataOf(c)) < 8
        /\ calls[c].steps = <<"probe", "derive", "fetch">>

C16_WitnessRetry ==
    \E a, b \in Calls :
        /\ a \in calls[b].after
        /\ calls[a].result = Null
        /\ calls[a].seen = None /\ calls[b].seen = None
        /\ Done(b) /\ calls[b].result # Null
        /\ FetchesOf(b) = 1

\* ------------------------------------------------------------------------
\* C17  Put semantics: the cache changes only in two ways.  Either a call
\* that has just decoded a record from its fetched account ends, and the
\* entry of its key, whether there was one or not, becomes that record
\* with the expiry (clock reading of this step) + TTL, all other entries
\* staying; or clearCache empties it.  So no entry is removed otherwise,
\* and no entry holds the absent result.
\* ------------------------------------------------------------------------
C17_PutSemantics ==
    /\ [][cache' # cache
          => \/ cache' = EmptyMap /\ dropped' # dropped
             \/ \E c \in Calls :
                   /\ calls[c].pc = "respond" /\ calls'[c].pc = "done"
                   /\ HasData(c)
                   /\ calls'[c].result = deserializePaymentRequirement(DataOf(c))
                   /\ calls'[c].result # Null
                   /\ calls'[c].steps =
                         <<"probe", "derive", "fetch", "decode", "put">>
                   /\ now' >= now
                   /\ cache' = [k \in (DOMAIN cache) \cup {calls[c].cacheKey} |->
                                  IF k = calls[c].cacheKey
                                  THEN [data |-> calls'[c].result,
                                        expiresAt |-> now' + cacheTtlMs]
                                  ELSE cache[k]]]_vars
    /\ [](\A k \in DOMAIN cache : cache[k].data # Null)

\* A put replaced the live entry another call had put for the key, with a
\* later expiry, counted from the put and not from the call's probe.
C17_Witness ==
    \E a, b \in Calls :
        /\ a # b
        /\ calls[a].cacheKey = calls[b].cacheKey
        /\ calls[a].steps = <<"probe", "derive", "fetch", "decode", "put">>
        /\ calls[b].steps = <<"probe", "derive", "fetch", "decode", "put">>
        /\ calls[b].seen = None /\ calls[b].cleared = None
        /\ calls[b].cacheKey \in DOMAIN lastPut
        /\ lastPut[calls[b].cacheKey].call = b
        /\ calls[b].startedAt = 0
        /\ cache[calls[b].cacheKey].expiresAt = 1 + cacheTtlMs

\* ------------------------------------------------------------------------
\* C18 (as claimed)  Record Locator seeds: every call that missed and whose
\* subject is an address has invoked the derivation with the program id
\* and exactly three seeds: the tag "payment_req", the 32 bytes the
\* subject's text encodes, and the bytes of the category's own text, the
\* category being "a2a" when omitted (the seed string of each of the four
\* known categories is the category's name).
\* ------------------------------------------------------------------------
C18_LocatorSeeds ==
    \A c \in Calls :
        (calls[c].pc # "idle" /\ ~ServedFromCache(c)
            /\ IsAddress(calls[c].args.agentMint))
        => LET d == calls[c].derivation
               category == IF "serviceType" \in DOMAIN calls[c].args
                           THEN calls[c].args.serviceType
                           ELSE <<"a", "2", "a">>
           IN  /\ d # None
               /\ d.programAddress = "Nouxis_PROGRAM_ID"
               /\ Len(d.seeds) = 3
               /\ d.seeds[1] =
                     [utf8 |-> <<"p","a","y","m","e","n","t","_","r","e","q">>]
               /\ Len(d.seeds[2]) = 32
               /\ encodeBase58(d.seeds[2]) = calls[c].args.agentMint
               /\ d.seeds[3] = [utf8 |-> category]

\* ------------------------------------------------------------------------
\* C20 (as claimed)  Freshness under racing refreshes: with no resolution
\* in flight, the entry of a key was put by a call whose fetch read the
\* remote account at least as late (in the count of remote changes) as
\* the fetch of every other call that put a record for the key.
\* ------------------------------------------------------------------------
C20_FreshestWins ==
    (\A c \in Calls : calls[c].pc \in {"idle", "done"})
    => \A k \in DOMAIN cache :
         \A c \in Calls :
             ( /\ calls[c].cacheKey = k
               /\ calls[c].steps = <<"probe", "derive", "fetch", "decode", "put">> )
             => calls[lastPut[k].call].version.n >= calls[c].version.n

\* ------------------------------------------------------------------------
\* C21 (as claimed)  Clear versus in-flight resolution: no call is served
\* from the cache with a record that was fetched before a clearCache that
\* returned before the call started; that is, the entry a hit returns was
\* never put by a call that clearCache overtook between the answer to its
\* fetch and its put.
\* ------------------------------------------------------------------------
C21_NoStaleAfterClear ==
    \A c \in Calls :
        ServedFromCache(c)
        => /\ calls[c].seen # None
           /\ ~calls[calls[c].seen.call].overtaken

\* The version of the remote account (the count of its changes) that the
\* record a call returned was read from: the version its own fetch read,
\* or for a hit the version read by the call that put the entry.
RecordVersion(c) ==
    IF ServedFromCache(c) THEN calls[calls[c].seen.call].version
    ELSE calls[c].version

\* ------------------------------------------------------------------------
\* C22 (as claimed)  Consistent challenge: when the payTo callback and the
\* price callback of one request have both returned, the recipient and the
\* price were taken from the same version of the record, whatever expiry,
\* failure or remote change came between their two resolve calls.
\* ------------------------------------------------------------------------
C22_ConsistentChallenge ==
    \A p, q \in DOMAIN calls :
        ( /\ gate.pc = "built"
          /\ gate.callbacks[p].kind = "payTo"
          /\ gate.callbacks[q].kind = "price"
          /\ "returns" \in DOMAIN gate.callbacks[p].outcome
          /\ "returns" \in DOMAIN gate.callbacks[q].outcome )
        => RecordVersion(p) = RecordVersion(q)

\* ------------------------------------------------------------------------
\* C23 (as claimed)  Network consistency: a gate built in dynamic mode from
\* a config without rpcUrl advertises, on every route, the network id of
\* the cluster whose endpoint its resolver was created for and reads the
\* record from, whatever the config's network option is.
\* ------------------------------------------------------------------------
C23_NetworkConsistency ==
    ( /\ gate.pc = "built"
      /\ gate.mode = "dynamic"
      /\ "rpcUrl" \notin DOMAIN gate.config
      /\ \E c \in Calls : FetchesOf(c) = 1 )
    => \A r \in DOMAIN gate.routes :
          gate.routes[r].accepts.network
              = ClusterNetworkId(ClusterOf(gate.rpcUrl))

====
